---------------------------- MODULE Spec2Model ----------------------------
(***************************************************************************)
(* Model of the MCP aggregation gateway (pleaseai/mcp-please).             *)
(*                                                                         *)
(* The module holds one set of variables and several specifications, one   *)
(* per component that is verified:                                         *)
(*   SpecRegen  - index regeneration detector and the auto-index of serve  *)
(*                (index-regeneration.ts, serve command)                   *)
(*   SpecExec   - tool execution through the call verb, the CLI executor   *)
(*                and the gateway (tool-executor.ts, mcp-client.ts,        *)
(*                server.ts)                                               *)
(*   SpecMerge  - merge of the project and user index and of their BM25    *)
(*                statistics (tool-deduplication.ts)                       *)
(*   SpecToken  - OAuth token store over time: sessions and the queries    *)
(*                on them (oauth/token-storage.ts)                         *)
(*   SpecSearch - regex, BM25, embedding and hybrid search strategies      *)
(*                  and the orchestrator that dispatches to them           *)
(*   SpecConfig - merge of the user, project and local config files        *)
(*   SpecDiscovery - discovery pass and single-shot transport calls,       *)
(*                step by step (mcp-client.ts, mcp-config-loader.ts)       *)
(*   SpecStore  - index file: save, load and exists (index/storage.ts)     *)
(*   SpecCache  - index caches of the managers and of the gateway server   *)
(*                (index/index.ts, server.ts)                              *)
(* Each specification moves the variables of its component and leaves the  *)
(* others as they are.                                                     *)
(***************************************************************************)
EXTENDS Integers, Sequences, FiniteSets, TLC

VARIABLES
    \* ---- regeneration detector: the files it reads and its last verdict
    indexFiles,     \* [IndexScopes -> index file at that scope's path]
    cfgFiles,       \* [Scopes -> 0 (file absent) or the content id of the file]
    cliVersion,     \* version in package.json of the running CLI
    regenScope,     \* the index scope whose index path is under check
    envSteps,       \* number of changes made to the files from outside so far
    regenResult,    \* last RegenerationResult returned by checkIndexRegeneration
    \* ---- tool execution: index, server configuration, token store, gateway
    toolIndex,      \* the persisted tool index read by getIndex / loadIndex
    cfgServers,     \* [Scopes -> [ServerNames -> server config or NoServer]]
    tokenFiles,     \* [token paths -> stored OAuth session file]
    registeredTools,\* names of the tools registered on the gateway's MCP server
    mcpCachedIndex, \* cachedIndex of the gateway server
    lastExec,       \* the last execution request and what came of it
    \* ---- multi-scope search: merging the project and the user index
    projectIndex,   \* project-level index handed to mergeIndexedTools, or NullIndex
    userIndex,      \* user-level index handed to mergeIndexedTools, or NullIndex
    mergeResult,    \* what mergeIndexedTools returned for them
    \* ---- OAuth token store
    now,            \* Date.now()
    lastSaved,      \* per URL: the session of the last saveSession, if no later write
    loadResult,     \* the last loadSession call and what it returned
    \* ---- search
    searchReq,      \* the search request at hand: query, indexed tools, options
    bm25Stats,      \* this.stats of the BM25 strategy instance
    searchResult,   \* the last search on the request and what it returned
    \* ---- server configuration resolver
    merged,         \* the last merge of the config files and the view it was made for
    \* ---- discovery pass and single-shot transport operations
    pass,           \* the running pass or call: path, position, pending result, output
    clients,        \* per upstream: client session state and what its operation came to
    elapsed,        \* clock ticks since the current connection attempt started
    \* ---- index store: the index file, a save in progress, the last load or exists
    storeFile,      \* content of the file at the index path
    saver,          \* the save in progress on that path, if any
    storeResult,    \* the last load or exists call and what it returned
    \* ---- index cache: saved indexes, IndexManager caches, the gateway's cachedIndex
    savedIndex,     \* [index path -> the index document saved there, or none]
    managerCache,   \* [IndexManager instance -> cachedIndex and cachedIndexPath]
    serverCachedIndex,\* cachedIndex of the gateway server
    readResult,     \* the last index read or gateway request and its answer
    \* ---- token store queries
    queryResult     \* the last hasSession, hasValidSession, needsRefresh or updateTokens call

regenVars == <<regenScope, indexFiles, cfgFiles, cliVersion, envSteps, regenResult>>

execVars == <<toolIndex, cfgServers, tokenFiles, registeredTools, mcpCachedIndex, lastExec>>

mergeVars == <<projectIndex, userIndex, mergeResult>>

tokenVars == <<now, lastSaved, loadResult>>

searchVars == <<searchReq, bm25Stats, searchResult>>

cfgVars == <<merged>>

discVars == <<pass, clients, elapsed>>

storeVars == <<storeFile, saver, storeResult>>

cacheVars == <<savedIndex, managerCache, serverCachedIndex, readResult>>

tokenQueryVars == <<queryResult>>

vars == <<regenScope, indexFiles, cfgFiles, cliVersion, envSteps, regenResult,
          toolIndex, cfgServers, tokenFiles, registeredTools, mcpCachedIndex, lastExec,
          projectIndex, userIndex, mergeResult, now, lastSaved, loadResult,
          searchReq, bm25Stats, searchResult,
          merged,
          pass, clients, elapsed,
          storeFile, saver, storeResult,
          savedIndex, managerCache, serverCachedIndex, readResult,
          queryResult>>

---------------------------------------------------------------------------
(* Generic helpers                                                         *)

Range(s) == {s[i] : i \in 1..Len(s)}

Max2(a, b) == IF a >= b THEN a ELSE b

\* Array.prototype.sort() on a list of names; names are numbered in their
\* lexical order, so the comparison of numbers is the comparison of strings.
RECURSIVE InsertSorted(_, _)
InsertSorted(x, s) ==
    IF s = <<>> THEN <<x>>
    ELSE IF x <= Head(s) THEN <<x>> \o s
    ELSE <<Head(s)>> \o InsertSorted(x, Tail(s))

RECURSIVE SortNames(_)
SortNames(s) == IF s = <<>> THEN <<>> ELSE InsertSorted(Head(s), SortNames(Tail(s)))

---------------------------------------------------------------------------
(* Regeneration detector                                                   *)

Scopes == <<"local", "project", "user">>      \* order of the loop in checkIndexRegeneration
ScopeSet == Range(Scopes)
IndexScopes == {"project", "user"}

Contents == {1, 2}                 \* distinct file contents (distinct SHA-256 digests)
ExcludeLists == {<<>>, <<1, 2>>, <<2, 1>>}
MaxVersion == 2                    \* CLI versions 1..MaxVersion
MaxEnvSteps == 3                   \* changes to config and index files from outside

\* A stored fingerprint: -1 the key is missing in buildMetadata.configFingerprints,
\* 0 {exists: false}, h > 0 {exists: true, hash: h}.
FpMissing == -1

createConfigFingerprint(scope) == cfgFiles[scope]

createAllConfigFingerprints == [s \in ScopeSet |-> createConfigFingerprint(s)]

\* Scope filtered fingerprints: a user-scope index sees only the user file,
\* a project-scope index sees all three files.
getConfigFingerprintsForScope(indexScope) ==
    [s \in ScopeSet |->
        IF indexScope = "user" /\ s # "user" THEN FpMissing
        ELSE createConfigFingerprint(s)]

getCliVersion == cliVersion

NoMeta == [cliVersion |-> 0, mode |-> "undef", provider |-> "undef", dtype |-> "undef",
           exclude |-> <<>>, fps |-> [s \in ScopeSet |-> FpMissing]]

MissingFile == [kind |-> "missing", meta |-> NoMeta]
CorruptFile == [kind |-> "corrupt", meta |-> NoMeta]
LegacyFile  == [kind |-> "legacy",  meta |-> NoMeta]
ValidFile(m) == [kind |-> "valid", meta |-> m]

Reason(kind, scope, what) == [kind |-> kind, scope |-> scope, what |-> what]

\* stored?.exists ?? false
FpExists(fp) == fp > 0

\* A comparison that looks at the presence of the file only.
FingerprintReasons_PresenceOnly(stored, current) ==
    IF FpExists(current) # FpExists(stored)
    THEN <<Reason("config", "-", IF FpExists(stored) THEN "removed" ELSE "added")>>
    ELSE <<>>

\* One iteration of the loop over the three scopes (lines 114-129).
FingerprintReasons(stored, current) ==
    IF FpExists(current) # FpExists(stored)
    THEN <<Reason("config", "-", IF FpExists(stored) THEN "removed" ELSE "added")>>
    ELSE IF FpExists(current) /\ FpExists(stored) /\ current # stored
    THEN <<Reason("config", "-", "content changed")>>
    ELSE <<>>

ScopeReasons(scope, storedFps, currentFps) ==
    LET r == FingerprintReasons(storedFps[scope], currentFps[scope])
    IN  IF r = <<>> THEN <<>> ELSE <<[r[1] EXCEPT !.scope = scope]>>

\* A detector that asks for a rebuild only from the second reason on.
NeedsRebuildOf_OffByOne(reasons) == Len(reasons) > 1

\* needsRebuild of the accumulating return path: reasons.length > 0
NeedsRebuildOf(reasons) == Len(reasons) > 0

\* checkIndexRegeneration(indexPath, currentArgs, {scope})
\* scopeOpt is "none" when no scope option is given.
checkIndexRegeneration(file, currentArgs, scopeOpt) ==
    IF file.kind = "missing"
    THEN [needsRebuild |-> TRUE, reasons |-> <<Reason("not found", "-", "-")>>]
    ELSE IF file.kind = "corrupt"
    THEN [needsRebuild |-> TRUE, reasons |-> <<Reason("corrupted", "-", "-")>>]
    ELSE IF file.kind = "legacy"
    THEN [needsRebuild |-> TRUE, reasons |-> <<Reason("legacy", "-", "-")>>]
    ELSE
      LET m == file.meta
          r4 == IF m.cliVersion # getCliVersion
                THEN <<Reason("cli version", "-", "changed")>> ELSE <<>>
          r5a == IF m.mode # currentArgs.mode
                 THEN <<Reason("mode", "-", "changed")>> ELSE <<>>
          r5b == IF m.provider # currentArgs.provider
                 THEN <<Reason("provider", "-", "changed")>> ELSE <<>>
          r5c == IF m.dtype # currentArgs.dtype
                 THEN <<Reason("dtype", "-", "changed")>> ELSE <<>>
          r5d == IF SortNames(m.exclude) # SortNames(currentArgs.exclude)
                 THEN <<Reason("exclude", "-", "changed")>> ELSE <<>>
          currentFps == IF scopeOpt # "none"
                        THEN getConfigFingerprintsForScope(scopeOpt)
                        ELSE createAllConfigFingerprints
          r6 == ScopeReasons(Scopes[1], m.fps, currentFps)
                \o ScopeReasons(Scopes[2], m.fps, currentFps)
                \o ScopeReasons(Scopes[3], m.fps, currentFps)
          reasons == r4 \o r5a \o r5b \o r5c \o r5d \o r6
      IN  [needsRebuild |-> NeedsRebuildOf(reasons), reasons |-> reasons]

Args(flags, exclude) ==
    [mode |-> flags[1], provider |-> flags[2], dtype |-> flags[3], exclude |-> exclude]

\* Flag values of serve: a base setting and one variation of each flag.
FlagSets == {<<"bm25", "local:minilm", "fp32">>, <<"embedding", "local:minilm", "fp32">>,
             <<"bm25", "local:mdbr-leaf", "fp32">>, <<"bm25", "local:minilm", "fp16">>}

NoResult == [called |-> FALSE, scopeOpt |-> "-", needsRebuild |-> FALSE, reasons |-> <<>>]

Returned(r, scopeOpt) ==
    [called |-> TRUE, scopeOpt |-> scopeOpt, needsRebuild |-> r.needsRebuild,
     reasons |-> r.reasons]

RegenInit ==
    /\ regenScope \in IndexScopes
    /\ indexFiles = [s \in IndexScopes |-> MissingFile]
    /\ cfgFiles = [s \in ScopeSet |-> 0]
    /\ cliVersion = 1
    /\ envSteps = 0
    /\ regenResult = NoResult

\* A call of checkIndexRegeneration on the index of the scope under check,
\* with or without the scope option.
CheckRegeneration ==
    \E flags \in FlagSets, exclude \in ExcludeLists, scopeOpt \in {"none", regenScope} :
        /\ regenResult' = Returned(checkIndexRegeneration(indexFiles[regenScope],
                                       Args(flags, exclude), scopeOpt), scopeOpt)
        /\ UNCHANGED <<regenScope, indexFiles, cfgFiles, cliVersion, envSteps>>

\* IndexManager.saveIndex(indexedTools, outputPath) and IndexStorage.save: the
\* manager takes two parameters and hands the storage the embedding model and
\* dimensions only, and the document the storage writes has no buildMetadata
\* field, so the options object of the caller is not written.
saveIndex(options) == LegacyFile

\* serve: one iteration of the per-scope loop when the detector asks for a
\* rebuild. With servers configured and tools found the index is rebuilt and
\* saved, the build metadata passed as the third argument of saveIndex;
\* otherwise the scope is skipped (scope all) or the process exits.
ServeScopeIteration(flags, toolsFound) ==
    LET s == regenScope
        r == checkIndexRegeneration(indexFiles[s], Args(flags, <<>>), s)
        meta == [cliVersion |-> getCliVersion, mode |-> flags[1],
                 provider |-> flags[2], dtype |-> flags[3], exclude |-> <<>>,
                 fps |-> getConfigFingerprintsForScope(s)]
    IN  /\ r.needsRebuild
        /\ regenResult' = Returned(r, s)
        /\ IF toolsFound
           THEN /\ envSteps < MaxEnvSteps
                /\ envSteps' = envSteps + 1
                /\ indexFiles' = [indexFiles EXCEPT ![s] = saveIndex(meta)]
           ELSE UNCHANGED <<envSteps, indexFiles>>
        /\ UNCHANGED <<regenScope, cfgFiles, cliVersion>>

ServeAutoIndex ==
    \E flags \in FlagSets, toolsFound \in BOOLEAN : ServeScopeIteration(flags, toolsFound)

\* An index written by a build that recorded an exclude list and all three
\* fingerprints (the shape the detector's tests write).
IndexWithExclude ==
    /\ envSteps < MaxEnvSteps
    /\ envSteps' = envSteps + 1
    /\ indexFiles' = [indexFiles EXCEPT ![regenScope] =
          ValidFile([cliVersion |-> getCliVersion, mode |-> "bm25",
                     provider |-> "local:minilm", dtype |-> "fp32",
                     exclude |-> <<1, 2>>, fps |-> createAllConfigFingerprints])]
    /\ UNCHANGED <<regenScope, cfgFiles, cliVersion, regenResult>>

\* index command: saves the index without build metadata.
IndexCommand ==
    /\ envSteps < MaxEnvSteps
    /\ envSteps' = envSteps + 1
    /\ indexFiles' = [indexFiles EXCEPT ![regenScope] = LegacyFile]
    /\ UNCHANGED <<regenScope, cfgFiles, cliVersion, regenResult>>

\* The index file is damaged or removed outside the program.
DamageIndex ==
    \E f \in {MissingFile, CorruptFile} :
        /\ envSteps < MaxEnvSteps
        /\ envSteps' = envSteps + 1
        /\ indexFiles[regenScope] # f
        /\ indexFiles' = [indexFiles EXCEPT ![regenScope] = f]
        /\ UNCHANGED <<regenScope, cfgFiles, cliVersion, regenResult>>

\* A config file is added, removed or edited.
EditConfig ==
    \E s \in ScopeSet, c \in Contents \cup {0} :
        /\ envSteps < MaxEnvSteps
        /\ envSteps' = envSteps + 1
        /\ cfgFiles[s] # c
        /\ cfgFiles' = [cfgFiles EXCEPT ![s] = c]
        /\ UNCHANGED <<regenScope, indexFiles, cliVersion, regenResult>>

UpgradeCli ==
    /\ envSteps < MaxEnvSteps
    /\ envSteps' = envSteps + 1
    /\ cliVersion < MaxVersion
    /\ cliVersion' = cliVersion + 1
    /\ UNCHANGED <<regenScope, indexFiles, cfgFiles, regenResult>>

RegenNext ==
    \/ CheckRegeneration
    \/ ServeAutoIndex
    \/ IndexWithExclude
    \/ IndexCommand
    \/ DamageIndex
    \/ EditConfig
    \/ UpgradeCli

---------------------------------------------------------------------------
(* Tool execution: ToolExecutor (CLI) and the gateway's call_tool handler   *)

ServerNames == {"gh", "fs"}
ServerOrder == <<"fs", "gh">>
\* The tools each upstream answers to listTools with.
UpstreamTools == [gh |-> <<"search">>, fs |-> <<"read", "write">>]
ArgValues == {"{}", "{path:1}"}
Undefined == "undefined"

\* convertMcpToolToDefinition(tool, serverName), with the two metadata fields.
convertMcpToolToDefinition(toolName, serverName) ==
    [name |-> serverName \o "__" \o toolName, server |-> serverName,
     originalName |-> toolName]

\* A tool definition loaded from a JSON/YAML source file: no server metadata.
FileTool(toolName) == [name |-> toolName, server |-> "", originalName |-> ""]

RECURSIVE ConvertAll(_, _)
ConvertAll(toolNames, serverName) ==
    IF toolNames = <<>> THEN <<>>
    ELSE <<convertMcpToolToDefinition(Head(toolNames), serverName)>>
         \o ConvertAll(Tail(toolNames), serverName)

\* fetchToolsFromMcpServer for every server of `servers`, in enumeration order.
RECURSIVE DiscoveredTools(_, _)
DiscoveredTools(order, servers) ==
    IF order = <<>> THEN <<>>
    ELSE (IF Head(order) \in servers
          THEN ConvertAll(UpstreamTools[Head(order)], Head(order)) ELSE <<>>)
         \o DiscoveredTools(Tail(order), servers)

NoIndexFile == [exists |-> FALSE, tools |-> <<>>]
IndexOf(tools) == [exists |-> TRUE, tools |-> tools]

NoServer == [present |-> FALSE, auth |-> "none", url |-> FALSE, token |-> Undefined]
ServerConfig(a, u) ==
    [present |-> TRUE, auth |-> a, url |-> u,
     token |-> IF a = "bearer" THEN "cfg-token" ELSE Undefined]

\* A stdio server without authorization, an http server with a bearer token,
\* an http server with oauth2, and an oauth2 block on a server without a url.
ServerConfigs ==
    {ServerConfig("none", FALSE), ServerConfig("bearer", TRUE),
     ServerConfig("oauth2", TRUE), ServerConfig("oauth2", FALSE)}

MergeOrder == <<"user", "project", "local">>

\* servers.set(name, serverConfig) for each scope in turn: the last scope
\* that defines the name wins.
RECURSIVE LastDefined(_, _, _)
LastDefined(scopes, name, acc) ==
    IF scopes = <<>> THEN acc
    ELSE LastDefined(Tail(scopes), name,
                     IF cfgServers[Head(scopes)][name].present
                     THEN cfgServers[Head(scopes)][name] ELSE acc)

getAllMcpServers(indexScope) ==
    [n \in ServerNames |->
        LastDefined(IF indexScope = "user" THEN <<"user">> ELSE MergeOrder, n, NoServer)]

UrlOf(serverName) == "https://" \o serverName \o ".example/mcp"
Urls == {UrlOf(n) : n \in ServerNames}

\* First 12 hex digits of MD5(url); the URLs of the model have distinct digests.
getServerHash(url) == "md5:" \o url
getTokenPath(url) == "tokens/" \o getServerHash(url) \o ".json"
TokenPaths == {getTokenPath(u) : u \in Urls}

MaxTime == 3

\* expiresAt of a session that carries none
NoExpiry == 0

\* The OAuthSession values saved in the model: both tokens, an access token
\* only, or no token at all (0 stands for an absent token), with or without
\* an expiry time.
Sessions ==
    {s \in [access_token : {0, 1, 2}, refresh_token : {0, 1},
            expiresAt : {NoExpiry} \cup 1..MaxTime] :
        <<s.access_token, s.refresh_token>> \in {<<1, 1>>, <<2, 0>>, <<0, 0>>}}

\* A token file: kind "none" (no file), or "session" with the JSON text of
\* the session, kept as its fields.
NoTokenFile == [kind |-> "none", access_token |-> 0, refresh_token |-> 0, expiresAt |-> NoExpiry]

\* JSON.stringify(session)
SessionFile(s) == [kind |-> "session", access_token |-> s.access_token,
                   refresh_token |-> s.refresh_token, expiresAt |-> s.expiresAt]

\* JSON.parse(content) as OAuthSession
ParseSession(f) == [access_token |-> f.access_token, refresh_token |-> f.refresh_token,
                    expiresAt |-> f.expiresAt]

NoSession == [found |-> FALSE,
              session |-> [access_token |-> 0, refresh_token |-> 0, expiresAt |-> NoExpiry]]
Found(s) == [found |-> TRUE, session |-> s]

Expired_StrictlyAfter(session) == session.expiresAt # NoExpiry /\ now > session.expiresAt

\* session.expiresAt && Date.now() >= session.expiresAt
Expired(session) == session.expiresAt # NoExpiry /\ now >= session.expiresAt

\* TokenStorage.loadSession(serverUrl, includeExpired)
loadSession(url, includeExpired) ==
    LET f == tokenFiles[getTokenPath(url)]
    IN  IF f.kind = "none" THEN NoSession
        ELSE IF ~includeExpired /\ Expired(ParseSession(f)) THEN NoSession
        ELSE Found(ParseSession(f))

hasSession(url) ==
    LET f == tokenFiles[getTokenPath(url)]
    IN  IF f.kind = "none" THEN FALSE
        ELSE f.access_token # 0 \/ f.refresh_token # 0

\* TokenStorage.saveSession(serverUrl, session)
saveSession(url, session) ==
    /\ tokenFiles' = [tokenFiles EXCEPT ![getTokenPath(url)] = SessionFile(session)]
    /\ lastSaved' = [lastSaved EXCEPT ![url] = Found(session)]

\* TokenStorage.clearSession(serverUrl)
clearSession(url) ==
    /\ tokenFiles' = [tokenFiles EXCEPT ![getTokenPath(url)] = NoTokenFile]
    /\ lastSaved' = [lastSaved EXCEPT ![url] = NoSession]

NoRequest == [server |-> "-", name |-> "-", arguments |-> "-", accessToken |-> "-"]

\* options.<field>, undefined when the caller's object has no such property
Prop(options, field) == IF field \in DOMAIN options THEN options[field] ELSE Undefined

\* callToolOnMcpServer(options): connect, callTool, close.
\* upstream is what the upstream does: "connect_error", "call_error", "ok", "isError".
callToolOnMcpServer(options, upstream) ==
    LET request == [server |-> Prop(options, "name"), name |-> Prop(options, "toolName"),
                    arguments |-> Prop(options, "arguments"),
                    accessToken |-> Prop(options, "accessToken")]
    IN  IF upstream = "connect_error" THEN [threw |-> TRUE, isError |-> FALSE, sent |-> NoRequest]
        ELSE IF upstream = "call_error" THEN [threw |-> TRUE, isError |-> FALSE, sent |-> request]
        ELSE [threw |-> FALSE, isError |-> (upstream = "isError"), sent |-> request]

\* OAuthManager.getAccessToken(): a token (possibly refreshed or re-authorized),
\* or an authorization error.
getAccessToken(url, authOk) ==
    IF authOk THEN [threw |-> FALSE, accessToken |-> "oauth-token"]
    ELSE [threw |-> TRUE, accessToken |-> Undefined]

AuthResult(code, token) == [code |-> code, accessToken |-> token]

\* ToolExecutor.resolveAuth: code "ok", "AUTH_REQUIRED" or "threw"
\* serverConfig.authorization?.type === 'oauth2' && serverConfig.url
NeedsOAuth_AnyTransport(serverConfig) == serverConfig.auth = "oauth2"

NeedsOAuth(serverConfig) == serverConfig.auth = "oauth2" /\ serverConfig.url

resolveAuth(serverName, serverConfig, authOk) ==
    IF NeedsOAuth(serverConfig)
    THEN IF hasSession(UrlOf(serverName))
         THEN LET t == getAccessToken(UrlOf(serverName), authOk)
              IN  IF t.threw THEN AuthResult("threw", Undefined)
                  ELSE AuthResult("ok", t.accessToken)
         ELSE AuthResult("AUTH_REQUIRED", Undefined)
    ELSE IF serverConfig.auth = "bearer" THEN AuthResult("ok", serverConfig.token)
    ELSE AuthResult("ok", Undefined)

\* index.tools.find(t => t.tool.name === toolName): position of the first match, 0 if none
RECURSIVE FindFrom(_, _, _)
FindFrom(tools, toolName, i) ==
    IF i > Len(tools) THEN 0
    ELSE IF tools[i].name = toolName THEN i
    ELSE FindFrom(tools, toolName, i + 1)

Find(tools, toolName) == FindFrom(tools, toolName, 1)

Outcome(code, sent, isError) == [code |-> code, sent |-> sent, isError |-> isError]

\* The tool name the executor hands to the transport client.
DispatchName_Prefixed(indexedTool) == indexedTool.name

DispatchName(indexedTool) == indexedTool.originalName

\* ToolExecutor.execute(toolName, args)
execute(toolName, args, authOk, upstream) ==
    IF ~toolIndex.exists THEN Outcome("RAISED", NoRequest, FALSE)
    ELSE
    LET i == Find(toolIndex.tools, toolName) IN
    IF i = 0 THEN Outcome("TOOL_NOT_FOUND", NoRequest, FALSE)
    ELSE
    LET indexedTool == toolIndex.tools[i]
        serverName == indexedTool.server
        originalName == indexedTool.originalName
    IN
    IF serverName = "" \/ originalName = "" THEN Outcome("METADATA_MISSING", NoRequest, FALSE)
    ELSE
    LET allServers == getAllMcpServers("none") IN
    IF serverName \notin DOMAIN allServers \/ ~allServers[serverName].present
    THEN Outcome("SERVER_NOT_CONFIGURED", NoRequest, FALSE)
    ELSE
    LET serverConfig == allServers[serverName]
        authResult == resolveAuth(serverName, serverConfig, authOk)
    IN
    IF authResult.code = "threw" THEN Outcome("RAISED", NoRequest, FALSE)
    ELSE IF authResult.code # "ok" THEN Outcome(authResult.code, NoRequest, FALSE)
    ELSE
    LET r == callToolOnMcpServer(
                 [name |-> serverName, config |-> serverConfig,
                  accessToken |-> authResult.accessToken,
                  toolName |-> DispatchName(indexedTool), toolArguments |-> args], upstream)
    IN  IF r.threw THEN Outcome("EXECUTION_FAILED", r.sent, FALSE)
        ELSE Outcome("SUCCESS", r.sent, r.isError)

\* The handler registered for call_tool on the gateway's MCP server; every
\* failure is caught and returned as an isError result.
handleCallTool(tools, toolName, args, authOk, upstream) ==
    LET i == Find(tools, toolName) IN
    IF i = 0 THEN Outcome("mcp:not found", NoRequest, TRUE)
    ELSE
    LET indexedTool == tools[i]
        serverName == indexedTool.server
        originalName == indexedTool.originalName
    IN
    IF serverName = "" \/ originalName = "" THEN Outcome("mcp:metadata missing", NoRequest, TRUE)
    ELSE
    LET allServers == getAllMcpServers("none") IN
    IF serverName \notin DOMAIN allServers \/ ~allServers[serverName].present
    THEN Outcome("mcp:server not found", NoRequest, TRUE)
    ELSE
    LET serverConfig == allServers[serverName]
        authResult == resolveAuth(serverName, serverConfig, authOk)
    IN
    IF authResult.code = "threw" THEN Outcome("mcp:error", NoRequest, TRUE)
    ELSE IF authResult.code # "ok" THEN Outcome("mcp:auth required", NoRequest, TRUE)
    ELSE
    LET r == callToolOnMcpServer(
                 [name |-> serverName, config |-> serverConfig,
                  accessToken |-> authResult.accessToken,
                  toolName |-> originalName, arguments |-> args], upstream)
    IN  IF r.threw THEN Outcome("mcp:error", r.sent, TRUE)
        ELSE Outcome("mcp:result", r.sent, r.isError)

\* McpToolSearchServer.registerTools
registerTools_WithoutCallTool == {"search_tools", "tool_search_info", "list_tools", "get_tool"}

registerTools == {"search_tools", "tool_search_info", "list_tools", "get_tool", "call_tool"}

RequestNames == {"gh__search", "fs__read", "read_file"}
UpstreamOutcomes == {"ok", "isError", "connect_error", "call_error"}

\* upstream: what the upstream did, or would have done, when connected to.
\* exit: the exit code of the call verb, "-" for a request over MCP.
NoExec == [via |-> "-", mcpTool |-> "-", toolName |-> "-", args |-> "-", upstream |-> "-",
           code |-> "-", sent |-> NoRequest, isError |-> FALSE, exit |-> "-"]

\* The argument strings given to the call verb; the last one is no JSON.
ArgStrings == ArgValues \cup {"{path:"}

\* parseArgs: JSON.parse, rethrown as "Invalid JSON arguments"
parseArgs(argsString) ==
    IF argsString \in ArgValues THEN [threw |-> FALSE, args |-> argsString]
    ELSE [threw |-> TRUE, args |-> Undefined]

\* executeCall that looks at result.success only.
executeCall_IgnoresIsError(o) ==
    IF o.code = "SUCCESS" THEN 0 ELSE 1

\* executeCall and the catch of its callers: process.exit(1) for a success
\* result with isError, for a thrown failure result and for a raised error;
\* the process ends with code 0 otherwise.
executeCall(o) ==
    IF o.code = "RAISED" THEN 1
    ELSE IF o.code = "SUCCESS" THEN (IF o.isError THEN 1 ELSE 0)
    ELSE 1

Executed(via, mcpTool, toolName, args, upstream, o) ==
    [via |-> via, mcpTool |-> mcpTool, toolName |-> toolName, args |-> args,
     upstream |-> upstream, code |-> o.code, sent |-> o.sent, isError |-> o.isError,
     exit |-> IF via = "cli" THEN executeCall(o) ELSE "-"]

MaxCfgEdits == 1      \* server definitions present in the config files

\* The servers whose definition and session change during a behaviour; the
\* other upstream is indexed but never configured.
Configurable == {"fs"}

\* What the index command is run on: a tools file plus both upstreams, or one upstream.
IndexSources == {<<TRUE, {"fs", "gh"}>>, <<FALSE, {"fs"}>>}

CfgEdits ==
    Cardinality({<<s, n>> \in ScopeSet \X ServerNames : cfgServers[s][n].present})

ExecInit ==
    /\ toolIndex = NoIndexFile
    /\ cfgServers = [s \in ScopeSet |-> [n \in ServerNames |-> NoServer]]
    /\ tokenFiles = [p \in TokenPaths |-> NoTokenFile]
    /\ registeredTools = {}
    /\ mcpCachedIndex = NoIndexFile
    /\ lastExec = NoExec

\* index command: discovery over the chosen upstreams and/or a source file,
\* saved as the tool index.
BuildToolIndex ==
    \E src \in IndexSources :
        /\ toolIndex' = IndexOf((IF src[1] THEN <<FileTool("read_file")>> ELSE <<>>)
                                \o DiscoveredTools(ServerOrder, src[2]))
        /\ toolIndex' # toolIndex
        /\ lastExec' = NoExec
        /\ UNCHANGED <<cfgServers, tokenFiles, lastSaved, registeredTools, mcpCachedIndex>>

\* mcp add / a hand edit of a config file: a server definition is written.
ConfigureServer ==
    \E s \in ScopeSet, n \in Configurable, c \in ServerConfigs :
        /\ ~cfgServers[s][n].present
        /\ CfgEdits < MaxCfgEdits
        /\ cfgServers' = [cfgServers EXCEPT ![s][n] = c]
        /\ lastExec' = NoExec
        /\ UNCHANGED <<toolIndex, tokenFiles, lastSaved, registeredTools, mcpCachedIndex>>

\* mcp remove
RemoveServer ==
    \E s \in ScopeSet, n \in Configurable :
        /\ cfgServers[s][n].present
        /\ cfgServers' = [cfgServers EXCEPT ![s][n] = NoServer]
        /\ lastExec' = NoExec
        /\ UNCHANGED <<toolIndex, tokenFiles, lastSaved, registeredTools, mcpCachedIndex>>

\* mcp auth: a completed authorization stores a session for the server's URL.
StoreSession ==
    \E n \in Configurable :
        /\ tokenFiles[getTokenPath(UrlOf(n))].kind = "none"
        /\ saveSession(UrlOf(n), [access_token |-> 1, refresh_token |-> 1,
                                  expiresAt |-> NoExpiry])
        /\ lastExec' = NoExec
        /\ UNCHANGED <<toolIndex, cfgServers, registeredTools, mcpCachedIndex>>

\* clearSession on revocation
RevokeSession ==
    \E n \in Configurable :
        /\ tokenFiles[getTokenPath(UrlOf(n))].kind # "none"
        /\ clearSession(UrlOf(n))
        /\ lastExec' = NoExec
        /\ UNCHANGED <<toolIndex, cfgServers, registeredTools, mcpCachedIndex>>

\* serve: the gateway server is constructed (registerTools) and started; start
\* pre-loads the index and leaves the cache empty when that fails.
StartGateway ==
    /\ registeredTools = {}
    /\ registeredTools' = registerTools
    /\ mcpCachedIndex' = toolIndex
    /\ lastExec' = NoExec
    /\ UNCHANGED <<toolIndex, cfgServers, tokenFiles, lastSaved>>

\* CLI call verb and the direct <tool> form: the arguments are parsed, then
\* ToolExecutor.execute runs on the index file; arguments that do not parse
\* end the process before the executor is called.
ExecuteCli ==
    \E toolName \in RequestNames, argsString \in ArgStrings, authOk \in BOOLEAN,
       upstream \in UpstreamOutcomes :
        /\ lastExec' =
             IF parseArgs(argsString).threw
             THEN [NoExec EXCEPT !.via = "cli:args", !.toolName = toolName,
                                 !.args = argsString, !.exit = 1]
             ELSE Executed("cli", "-", toolName, parseArgs(argsString).args, upstream,
                           execute(toolName, parseArgs(argsString).args, authOk, upstream))
        /\ UNCHANGED <<toolIndex, cfgServers, tokenFiles, lastSaved, registeredTools, mcpCachedIndex>>

\* A call_tool request arriving over MCP.
McpCallTool ==
    \E toolName \in RequestNames, args \in ArgValues, authOk \in BOOLEAN,
       upstream \in UpstreamOutcomes :
        /\ "call_tool" \in registeredTools
        /\ LET cache == IF mcpCachedIndex.exists THEN mcpCachedIndex ELSE toolIndex
           IN  IF ~cache.exists
               THEN /\ lastExec' = Executed("mcp", "call_tool", toolName, args, upstream,
                                            Outcome("mcp:error", NoRequest, TRUE))
                    /\ UNCHANGED mcpCachedIndex
               ELSE /\ mcpCachedIndex' = cache
                    /\ lastExec' = Executed("mcp", "call_tool", toolName, args, upstream,
                            handleCallTool(cache.tools, toolName, args, authOk, upstream))
        /\ UNCHANGED <<toolIndex, cfgServers, tokenFiles, lastSaved, registeredTools>>

\* A search_tools, list_tools, get_tool or tool_search_info request arriving
\* over MCP: answered from the cached index, nothing is sent upstream.
McpQuery ==
    \E t \in registeredTools \ {"call_tool"} :
        LET cache == IF mcpCachedIndex.exists THEN mcpCachedIndex ELSE toolIndex
        IN  /\ mcpCachedIndex' = cache
            /\ lastExec' = Executed("mcp", t, "-", "-", "-",
                   Outcome(IF cache.exists THEN "mcp:result" ELSE "mcp:error", NoRequest,
                           ~cache.exists))
            /\ UNCHANGED <<toolIndex, cfgServers, tokenFiles, lastSaved, registeredTools>>

ExecNext ==
    \/ BuildToolIndex
    \/ ConfigureServer
    \/ RemoveServer
    \/ StoreSession
    \/ RevokeSession
    \/ StartGateway
    \/ ExecuteCli
    \/ McpCallTool
    \/ McpQuery

---------------------------------------------------------------------------
(* Multi-scope merge: mergeIndexedTools                                     *)

ToolNames == {"a", "b", "c"}
MaxIndexLen == 2

NullIndex == [present |-> FALSE, tools |-> <<>>]

\* An IndexedTool of the index of `scope`: its name, and the index and
\* position it was stored at, which tell two records of one name apart.
\* Its tokens are those of its searchable text: the name and the one word
\* every description holds.
IndexedTool(name, scope, pos) ==
    [name |-> name, from |-> scope, pos |-> pos, tokens |-> <<name, "tool">>]

RECURSIVE TotalLength(_)
TotalLength(indexedTools) ==
    IF indexedTools = <<>> THEN 0
    ELSE Len(Head(indexedTools).tokens) + TotalLength(Tail(indexedTools))

\* IndexStorage.computeBM25Stats, run by save on the tools it writes;
\* avgDocLength is kept as totalLength / totalDocuments.
computeBM25Stats(indexedTools) ==
    LET uniqueTokens(i) == {indexedTools[i].tokens[j] : j \in 1..Len(indexedTools[i].tokens)}
    IN  [totalDocuments |-> Len(indexedTools),
         totalLength |-> TotalLength(indexedTools),
         documentFrequencies |->
            [t \in UNION {uniqueTokens(i) : i \in 1..Len(indexedTools)} |->
                Cardinality({i \in 1..Len(indexedTools) : t \in uniqueTokens(i)})]]

\* The indexes of `scope` with at most MaxIndexLen tools, as save wrote them.
IndexesOf(scope) ==
    {[present |-> TRUE,
      tools |-> [i \in 1..Len(f) |-> IndexedTool(f[i], scope, i)],
      bm25Stats |-> computeBM25Stats([i \in 1..Len(f) |-> IndexedTool(f[i], scope, i)])] :
        f \in UNION {[1..k -> ToolNames] : k \in 0..MaxIndexLen}}

\* Map.prototype.set on a map kept as the sequence of its entries in
\* insertion order: an existing key keeps its place and takes the new value.
MapSet(map, tool) ==
    IF \E i \in 1..Len(map) : map[i].name = tool.name
    THEN [i \in 1..Len(map) |-> IF map[i].name = tool.name THEN tool ELSE map[i]]
    ELSE Append(map, tool)

RECURSIVE SetAll(_, _)
SetAll(map, tools) ==
    IF tools = <<>> THEN map ELSE SetAll(MapSet(map, Head(tools)), Tail(tools))

mergeIndexedTools_UserLast(pIndex, uIndex) ==
    SetAll(SetAll(<<>>, IF pIndex.present THEN pIndex.tools ELSE <<>>),
           IF uIndex.present THEN uIndex.tools ELSE <<>>)

mergeIndexedTools(pIndex, uIndex) ==
    SetAll(SetAll(<<>>, IF uIndex.present THEN uIndex.tools ELSE <<>>),
           IF pIndex.present THEN pIndex.tools ELSE <<>>)

EmptyBM25Stats == [totalDocuments |-> 0, totalLength |-> 0, documentFrequencies |-> <<>>]

\* mergeBM25Stats that keeps the project's document frequencies.
mergeBM25Stats_ProjectFrequencies(pIndex, uIndex) ==
    IF ~pIndex.present /\ ~uIndex.present THEN EmptyBM25Stats
    ELSE IF ~pIndex.present THEN uIndex.bm25Stats
    ELSE IF ~uIndex.present THEN pIndex.bm25Stats
    ELSE [totalDocuments |-> pIndex.bm25Stats.totalDocuments + uIndex.bm25Stats.totalDocuments,
          totalLength |-> pIndex.bm25Stats.totalLength + uIndex.bm25Stats.totalLength,
          documentFrequencies |-> pIndex.bm25Stats.documentFrequencies]

\* mergeBM25Stats: the statistics of one index when the other is missing,
\* else document counts, total lengths and per-term frequencies added up.
mergeBM25Stats(pIndex, uIndex) ==
    IF ~pIndex.present /\ ~uIndex.present THEN EmptyBM25Stats
    ELSE IF ~pIndex.present THEN uIndex.bm25Stats
    ELSE IF ~uIndex.present THEN pIndex.bm25Stats
    ELSE LET pStats == pIndex.bm25Stats
             uStats == uIndex.bm25Stats
             freq(stats, term) == IF term \in DOMAIN stats.documentFrequencies
                                  THEN stats.documentFrequencies[term] ELSE 0
         IN  [totalDocuments |-> pStats.totalDocuments + uStats.totalDocuments,
              totalLength |-> pStats.totalLength + uStats.totalLength,
              documentFrequencies |->
                 [term \in DOMAIN pStats.documentFrequencies
                            \cup DOMAIN uStats.documentFrequencies |->
                     freq(pStats, term) + freq(uStats, term)]]

NoMerge == [called |-> FALSE, tools |-> <<>>, bm25Stats |-> EmptyBM25Stats]

MergeIdle ==
    /\ projectIndex = NullIndex
    /\ userIndex = NullIndex
    /\ mergeResult = NoMerge

MergeInit ==
    /\ projectIndex \in IndexesOf("project") \cup {NullIndex}
    /\ userIndex \in IndexesOf("user") \cup {NullIndex}
    /\ mergeResult = NoMerge

\* search --scope all: both indexes are merged.
MergeIndexes ==
    /\ mergeResult' = [called |-> TRUE, tools |-> mergeIndexedTools(projectIndex, userIndex),
                       bm25Stats |-> mergeBM25Stats(projectIndex, userIndex)]
    /\ UNCHANGED <<projectIndex, userIndex>>

MergeNext == MergeIndexes

---------------------------------------------------------------------------
(* Token store: saveSession / loadSession / clearSession over time          *)

NoLoad == [called |-> FALSE, url |-> "-", includeExpired |-> FALSE,
           found |-> FALSE, session |-> NoSession.session]

\* const REFRESH_BUFFER = 5 * 60 * 1000, in clock ticks
REFRESH_BUFFER == 1

\* hasValidSession: loadSession(serverUrl) !== undefined
hasValidSession(url) == loadSession(url, FALSE).found

\* needsRefresh that takes a missing expiry for an expiry at time zero.
needsRefresh_MissingIsZero(url) ==
    LET session == loadSession(url, FALSE)
    IN  IF ~session.found THEN TRUE
        ELSE now >= session.session.expiresAt - REFRESH_BUFFER

\* needsRefresh: true without a session, false without an expiry, else
\* Date.now() >= session.expiresAt - REFRESH_BUFFER
needsRefresh(url) ==
    LET session == loadSession(url, FALSE)
    IN  IF ~session.found THEN TRUE
        ELSE IF session.session.expiresAt = NoExpiry THEN FALSE
        ELSE now >= session.session.expiresAt - REFRESH_BUFFER

\* The token responses handed to updateTokens: with and without expires_in
\* (0 stands for an absent expires_in).
TokenResponses ==
    {[access_token |-> 2, refresh_token |-> 1, expires_in |-> 0],
     [access_token |-> 2, refresh_token |-> 1, expires_in |-> 1]}

\* tokens.expires_in ? Date.now() + tokens.expires_in * 1000 : undefined
expiresAtOf(t) == IF t.expires_in # 0 THEN now + t.expires_in ELSE NoExpiry

NoQuery == [called |-> FALSE, op |-> "-", url |-> "-", value |-> FALSE, threw |-> FALSE,
            tokens |-> [access_token |-> 0, refresh_token |-> 0, expires_in |-> 0],
            before |-> NoTokenFile, at |-> 0]

Answered(op, url, value) ==
    [NoQuery EXCEPT !.called = TRUE, !.op = op, !.url = url, !.value = value, !.at = now]

TokenQueryIdle == queryResult = NoQuery

TokenIdle ==
    /\ now = 1
    /\ lastSaved = [u \in Urls |-> NoSession]
    /\ loadResult = NoLoad

SaveSession ==
    \E u \in Urls, s \in Sessions :
        /\ saveSession(u, s)
        /\ loadResult' = NoLoad
        /\ queryResult' = NoQuery
        /\ UNCHANGED now

ClearSession ==
    \E u \in Urls :
        /\ tokenFiles[getTokenPath(u)].kind # "none"
        /\ clearSession(u)
        /\ loadResult' = NoLoad
        /\ queryResult' = NoQuery
        /\ UNCHANGED now

LoadSession ==
    \E u \in Urls, includeExpired \in BOOLEAN :
        LET r == loadSession(u, includeExpired)
        IN  /\ loadResult' = [called |-> TRUE, url |-> u, includeExpired |-> includeExpired,
                              found |-> r.found, session |-> r.session]
            /\ queryResult' = NoQuery
            /\ UNCHANGED <<tokenFiles, lastSaved, now>>

\* hasValidSession(serverUrl)
HasValidSession ==
    \E u \in Urls :
        /\ queryResult' = Answered("hasValidSession", u, hasValidSession(u))
        /\ loadResult' = NoLoad
        /\ UNCHANGED <<tokenFiles, lastSaved, now>>

\* hasSession(serverUrl)
HasSession ==
    \E u \in Urls :
        /\ queryResult' = Answered("hasSession", u, hasSession(u))
        /\ loadResult' = NoLoad
        /\ UNCHANGED <<tokenFiles, lastSaved, now>>

\* needsRefresh(serverUrl)
NeedsRefresh ==
    \E u \in Urls :
        /\ queryResult' = Answered("needsRefresh", u, needsRefresh(u))
        /\ loadResult' = NoLoad
        /\ UNCHANGED <<tokenFiles, lastSaved, now>>

\* updateTokens(serverUrl, tokens): throws when loadSession finds no session,
\* else saves the session with the new tokens and a recomputed expiry.
UpdateTokens ==
    \E u \in Urls, t \in TokenResponses :
        LET session == loadSession(u, FALSE)
        IN  /\ queryResult' =
                 [called |-> TRUE, op |-> "updateTokens", url |-> u, value |-> FALSE,
                  threw |-> ~session.found, tokens |-> t,
                  before |-> tokenFiles[getTokenPath(u)], at |-> now]
            /\ loadResult' = NoLoad
            /\ IF session.found
               THEN saveSession(u, [access_token |-> t.access_token,
                                    refresh_token |-> t.refresh_token,
                                    expiresAt |-> expiresAtOf(t)])
               ELSE UNCHANGED <<tokenFiles, lastSaved>>
            /\ UNCHANGED now

\* Time passes.
Tick ==
    /\ now < MaxTime
    /\ now' = now + 1
    /\ loadResult' = NoLoad
    /\ queryResult' = NoQuery
    /\ UNCHANGED <<tokenFiles, lastSaved>>

TokenNext ==
    \/ SaveSession
    \/ ClearSession
    \/ LoadSession
    \/ HasValidSession
    \/ HasSession
    \/ NeedsRefresh
    \/ UpdateTokens
    \/ Tick

---------------------------------------------------------------------------
(* Search strategies: regex, BM25, embedding, hybrid                        *)
(* Text is a sequence of characters.  Scores are fixed-point: Micro is the  *)
(* value 1.0 of an unrounded score, Milli the value 1.0 of a score rounded  *)
(* to three decimals (Math.round(x * 1000) / 1000).                         *)

Micro == 1000000
Milli == 1000

\* Math.round(num / den * 1000) for num >= 0, den > 0
RoundMilli_Floor(num, den) ==
    (num \div den) * Milli + (Milli * (num % den)) \div den

RoundMilli(num, den) ==
    (num \div den) * Milli + (2 * Milli * (num % den) + den) \div (2 * den)

\* String.prototype.toLowerCase, one character
ToLower(c) == IF c = "E" THEN "e" ELSE IF c = "F" THEN "f" ELSE c

LowerCase(text) == [i \in 1..Len(text) |-> ToLower(text[i])]

AlphaNum == {"a", "b", "c", "d", "e", "f", "h", "t"}

\* .replace(/[^a-z0-9\s]/g, ' ')
Sanitize(text) == [i \in 1..Len(text) |-> IF text[i] \in AlphaNum THEN text[i] ELSE " "]

\* .split(/\s+/): the maximal runs of non-space characters (and the empty
\* strings at the ends, which the length filter drops anyway)
RECURSIVE SplitFrom(_, _, _)
SplitFrom(text, i, word) ==
    IF i > Len(text) THEN <<word>>
    ELSE IF text[i] = " "
         THEN (IF word = <<>> /\ i > 1 THEN <<>> ELSE <<word>>) \o SplitFrom(text, i + 1, <<>>)
    ELSE SplitFrom(text, i + 1, Append(word, text[i]))

STOP_WORDS == {<<"a">>, <<"t", "h", "e">>, <<"b", "e">>, <<"h", "e">>, <<"a", "t">>}

\* BM25SearchStrategy.tokenize
tokenize(text) ==
    SelectSeq(SplitFrom(Sanitize(LowerCase(text)), 1, <<>>),
              LAMBDA token : Len(token) > 1 /\ token \notin STOP_WORDS)

\* Math.log(n), in Micro units
LnMicro ==
    <<0, 693147, 1098612, 1386294, 1609438, 1791759, 1945910, 2079442, 2197225,
      2302585, 2397895, 2484907, 2564949, 2639057>>

\* BM25Stats: totalDocuments, avgDocLength kept as totalLength / totalDocuments,
\* documentFrequencies as a function on the terms it has an entry for.
NoStats == [set |-> FALSE, totalDocuments |-> 0, totalLength |-> 0,
            documentFrequencies |-> <<>>]

Count(seq, x) == Cardinality({i \in 1..Len(seq) : seq[i] = x})

RECURSIVE SumLengths(_)
SumLengths(tools) == IF tools = <<>> THEN 0 ELSE Len(Head(tools).tokens) + SumLengths(Tail(tools))

\* BM25SearchStrategy.computeStats
computeStats(indexedTools) ==
    LET terms == UNION {Range(indexedTools[i].tokens) : i \in 1..Len(indexedTools)}
    IN  [set |-> TRUE,
         totalDocuments |-> Len(indexedTools),
         totalLength |-> SumLengths(indexedTools),
         documentFrequencies |->
            [t \in terms |-> Cardinality({i \in 1..Len(indexedTools) :
                                            t \in Range(indexedTools[i].tokens)})]]

\* BM25 parameters k1 = 1.5 and b = 0.75, in quarters and eighths:
\* tfNorm = tf * (k1 + 1) / (tf + k1 * (1 - b + b * docLength / avgDocLength))
\*        = 20 tf L / (8 tf L + 3 L + 9 docLength N)   with avgDocLength = L / N
TermScore(stats, tf, docLength, term) ==
    LET N == stats.totalDocuments
        L == stats.totalLength
        df == IF term \in DOMAIN stats.documentFrequencies
              THEN stats.documentFrequencies[term] ELSE 0
        idf == LnMicro[2 * N + 2] - LnMicro[2 * df + 1]
    IN  IF tf = 0 THEN 0
        ELSE IF L = 0 THEN 0
        ELSE (idf * (20 * tf * L)) \div (8 * tf * L + 3 * L + 9 * docLength * N)

RECURSIVE SumTerms(_, _, _)
SumTerms(stats, queryTokens, docTokens) ==
    IF queryTokens = <<>> THEN 0
    ELSE TermScore(stats, Count(docTokens, Head(queryTokens)), Len(docTokens),
                   Head(queryTokens))
         + SumTerms(stats, Tail(queryTokens), docTokens)

\* BM25SearchStrategy.calculateBM25Score, in Micro units
calculateBM25Score(stats, queryTokens, indexed) ==
    IF ~stats.set THEN 0 ELSE SumTerms(stats, queryTokens, indexed.tokens)

ToolReference(name, score, matchType) == [name |-> name, score |-> score, matchType |-> matchType]

\* Array.prototype.sort((a, b) => b.score - a.score): stable, descending
RECURSIVE InsertByScore(_, _)
InsertByScore(r, sorted) ==
    IF sorted = <<>> THEN <<r>>
    ELSE IF Head(sorted).score >= r.score THEN <<Head(sorted)>> \o InsertByScore(r, Tail(sorted))
    ELSE <<r>> \o sorted

RECURSIVE SortByScore(_)
SortByScore(results) ==
    IF results = <<>> THEN <<>>
    ELSE InsertByScore(results[Len(results)], SortByScore(SubSeq(results, 1, Len(results) - 1)))

\* Array.prototype.slice(0, topK)
Slice(results, topK) == SubSeq(results, 1, IF topK < Len(results) THEN topK ELSE Len(results))

RECURSIVE MaxScore(_, _)
MaxScore(results, floor) ==
    IF results = <<>> THEN floor
    ELSE MaxScore(Tail(results), Max2(floor, Head(results).score))

\* options.threshold ?? 0, in Micro units; options.topK
SearchOptions(topK, threshold) == [topK |-> topK, threshold |-> threshold]

Returned_(results) == [threw |-> FALSE, results |-> results]
Thrown == [threw |-> TRUE, results |-> <<>>]

\* The loop of BM25SearchStrategy.search: the tools whose unrounded score is
\* positive and at least the threshold, each with its score rounded.
RECURSIVE BM25Scored(_, _, _, _)
BM25Scored(stats, queryTokens, indexedTools, threshold) ==
    IF indexedTools = <<>> THEN <<>>
    ELSE LET score == calculateBM25Score(stats, queryTokens, Head(indexedTools))
         IN  (IF score > 0 /\ score >= threshold
              THEN <<ToolReference(Head(indexedTools).name, RoundMilli(score, Micro), "bm25")>>
              ELSE <<>>)
             \o BM25Scored(stats, queryTokens, Tail(indexedTools), threshold)

\* Math.max(...results.map(r => r.score), 1)
BM25MaxScore(results) == MaxScore(results, Milli)

\* result.score = Math.round((result.score / maxScore) * 1000) / 1000
NormalizeBy(results, maxScore) ==
    [i \in 1..Len(results) |->
        [results[i] EXCEPT !.score = RoundMilli(results[i].score, maxScore)]]

\* The statistics a BM25 search works with and leaves in this.stats.
StatsFor(stats, indexedTools) == IF stats.set THEN stats ELSE computeStats(indexedTools)

\* BM25SearchStrategy.search
bm25Search(stats, query, indexedTools, options) ==
    LET queryTokens == tokenize(query)
        results == BM25Scored(StatsFor(stats, indexedTools), queryTokens, indexedTools,
                              options.threshold)
    IN  IF queryTokens = <<>> THEN Returned_(<<>>)
        ELSE Returned_(Slice(SortByScore(NormalizeBy(results, BM25MaxScore(results))),
                             options.topK))

\* text.substr(i, n) === pattern, case-insensitively (flag i); i is 1-based
MatchAt(text, pattern, i) ==
    /\ i + Len(pattern) - 1 <= Len(text)
    /\ \A k \in 1..Len(pattern) : ToLower(text[i + k - 1]) = ToLower(pattern[k])

\* text.match(new RegExp(query, 'gi')) for a query without metacharacters:
\* the start positions of the successive non-overlapping matches
RECURSIVE MatchStarts(_, _, _)
MatchStarts(text, pattern, i) ==
    IF i + Len(pattern) - 1 > Len(text) THEN <<>>
    ELSE IF MatchAt(text, pattern, i)
         THEN <<i>> \o MatchStarts(text, pattern, i + Len(pattern))
    ELSE MatchStarts(text, pattern, i + 1)

\* RegexSearchStrategy.calculateScore, rounded, in Milli units:
\* min(1, density * 2 + matchCount * 0.1 + positionBonus * 0.2 + exactMatchBonus)
\* taken over the common denominator 10 * text.length
calculateScore(starts, text, query) ==
    LET T == Len(text)
        matchCount == Len(starts)
        matchLength == matchCount * Len(query)
        firstMatchIndex == starts[1] - 1
        exact == \E k \in 1..Len(starts) :
                    LowerCase(SubSeq(text, starts[k], starts[k] + Len(query) - 1))
                        = LowerCase(query)
        sum == 20 * matchLength + matchCount * T + 2 * (T - firstMatchIndex)
               + (IF exact THEN 3 * T ELSE 0)
    IN  RoundMilli(IF sum > 10 * T THEN 10 * T ELSE sum, 10 * T)

RECURSIVE RegexScored(_, _, _)
RegexScored(query, indexedTools, threshold) ==
    IF indexedTools = <<>> THEN <<>>
    ELSE LET text == Head(indexedTools).searchableText
             starts == MatchStarts(text, query, 1)
         IN  (IF starts # <<>> /\ calculateScore(starts, text, query) * Milli >= threshold
              THEN <<ToolReference(Head(indexedTools).name,
                                   calculateScore(starts, text, query), "regex")>>
              ELSE <<>>)
             \o RegexScored(query, Tail(indexedTools), threshold)

\* RegexSearchStrategy.search
regexSearch(query, indexedTools, options) ==
    Returned_(Slice(SortByScore(RegexScored(query, indexedTools, options.threshold)),
                    options.topK))

Dot(a, b) == IF Len(a) = 2 THEN a[1] * b[1] + a[2] * b[2] ELSE 0

\* Math.sqrt of a perfect square
Sqrt(x) == CHOOSE r \in 0..x : r * r = x

\* EmbeddingSearchStrategy.cosineSimilarity turned into the score
\* (similarity + 1) / 2, as the fraction <<numerator, denominator>>
SimilarityScore(a, b) ==
    LET normA == Sqrt(Dot(a, a))
        normB == Sqrt(Dot(b, b))
    IN  IF normA = 0 \/ normB = 0 THEN <<1, 2>>
        ELSE <<Dot(a, b) + normA * normB, 2 * normA * normB>>

\* tools.filter(t => t.embedding && t.embedding.length > 0)
WithEmbeddings(indexedTools) == SelectSeq(indexedTools, LAMBDA t : Len(t.embedding) > 0)

\* score >= (options.threshold ?? 0), on the unrounded score
EmbeddingPasses(score, threshold) == score[1] * Micro >= threshold * score[2]

RECURSIVE EmbeddingScored(_, _, _)
EmbeddingScored(queryEmbedding, tools, threshold) ==
    IF tools = <<>> THEN <<>>
    ELSE LET score == SimilarityScore(queryEmbedding, Head(tools).embedding)
         IN  (IF EmbeddingPasses(score, threshold)
              THEN <<ToolReference(Head(tools).name, RoundMilli(score[1], score[2]),
                                   "embedding")>>
              ELSE <<>>)
             \o EmbeddingScored(queryEmbedding, Tail(tools), threshold)

\* EmbeddingSearchStrategy.search
embeddingSearch(queryEmbedding, indexedTools, options) ==
    IF WithEmbeddings(indexedTools) = <<>> THEN Thrown
    ELSE IF \E i \in 1..Len(indexedTools) :
               Len(indexedTools[i].embedding) \notin {0, Len(queryEmbedding)}
         THEN Thrown
    ELSE Returned_(Slice(SortByScore(EmbeddingScored(queryEmbedding,
                                                     WithEmbeddings(indexedTools),
                                                     options.threshold)),
                         options.topK))

rrfK == 60
topKMultiplier == 3

\* Common denominator of 1 / (rrfK + rank + 1) for the ranks 0..n-1
RECURSIVE RrfDen(_)
RrfDen(n) == IF n = 0 THEN 1 ELSE (rrfK + n) * RrfDen(n - 1)

\* addScores(results): fused[name] += 1 / (rrfK + rank + 1), over denominator den;
\* fused is the Map in insertion order
RECURSIVE AddScores(_, _, _, _)
AddScores(fused, results, rank, den) ==
    IF rank >= Len(results) THEN fused
    ELSE LET r == results[rank + 1]
             rrfScore == den \div (rrfK + rank + 1)
         IN  AddScores(
                IF \E i \in 1..Len(fused) : fused[i].name = r.name
                THEN [i \in 1..Len(fused) |->
                        IF fused[i].name = r.name
                        THEN [fused[i] EXCEPT !.score = @ + rrfScore] ELSE fused[i]]
                ELSE Append(fused, ToolReference(r.name, rrfScore, r.matchType)),
                results, rank + 1, den)

RrfNormalizer_Fixed(sorted, den) == den

\* maxScore = results.length > 0 ? results[0].score : 1
RrfNormalizer(sorted, den) == IF Len(sorted) > 0 THEN sorted[1].score ELSE den

\* HybridSearchStrategy.reciprocalRankFusion
reciprocalRankFusion(bm25Results, embeddingResults) ==
    LET den == RrfDen(Max2(Len(bm25Results), Len(embeddingResults)))
        sorted == SortByScore(AddScores(AddScores(<<>>, bm25Results, 0, den),
                                        embeddingResults, 0, den))
    IN  [i \in 1..Len(sorted) |->
            ToolReference(sorted[i].name,
                          RoundMilli(sorted[i].score, RrfNormalizer(sorted, den)), "hybrid")]

\* HybridSearchStrategy.search
hybridSearch(stats, query, queryEmbedding, indexedTools, options) ==
    IF WithEmbeddings(indexedTools) = <<>> THEN Thrown
    ELSE LET expandedOptions == SearchOptions(options.topK * topKMultiplier, 0)
             bm25Results == bm25Search(stats, query, indexedTools, expandedOptions)
             embeddingResults == embeddingSearch(queryEmbedding, indexedTools, expandedOptions)
         IN  IF embeddingResults.threw THEN Thrown
             ELSE Returned_(Slice(
                     SelectSeq(reciprocalRankFusion(bm25Results.results,
                                                    embeddingResults.results),
                               LAMBDA r : r.score * Milli >= options.threshold),
                     options.topK))

\* IndexBuilder.buildIndexedTool, with the embedding the indexer attached
buildIndexedTool(name, searchableText, embedding) ==
    [name |-> name, searchableText |-> searchableText,
     tokens |-> tokenize(searchableText), embedding |-> embedding]

ToolA == buildIndexedTool("A", <<"a", "b">>, <<13, 0>>)
ToolB == buildIndexedTool("B", <<"a", "b", " ", "c", "d">>, <<12, 5>>)
ToolC == buildIndexedTool("C", <<"a", "b", " ", "c", "d", " ", "e", "f">>, <<5, 12>>)
ToolD == buildIndexedTool("D", <<"E", "F">>, <<>>)

DocLists ==
    {<<ToolA, ToolB, ToolC>>, <<ToolB, ToolC>>, <<ToolC, ToolD>>,
     <<ToolA, ToolB, ToolC, ToolD>>, <<ToolD>>, <<>>}

Queries ==
    {<<"a", "b">>, <<"c", "d", " ", "e", "f">>, <<"e", "f">>, <<"t", "h", "e">>}

\* embeddingProvider.embed(query)
embed(query) ==
    IF query = <<"a", "b">> THEN <<5, 12>>
    ELSE IF query = <<"e", "f">> THEN <<12, 5>>
    ELSE IF query = <<"t", "h", "e">> THEN <<0, 13>>
    ELSE <<13, 0>>

\* options.threshold, in Micro units
Thresholds == {0, 450000, 692200, 1000000}
TopKs == {1, 3}

\* mode: the mode asked for; dispatched: the mode of the strategy whose search
\* ran ("-" when none did); via: a call on a strategy or on the orchestrator.
NoSearch == [called |-> FALSE, via |-> "-", mode |-> "-", dispatched |-> "-",
             threw |-> FALSE, results |-> <<>>]

Searched(mode, r) ==
    [called |-> TRUE, via |-> "strategy", mode |-> mode, dispatched |-> mode,
     threw |-> r.threw, results |-> r.results]

\* SearchOrchestrator constructor: this.strategies
strategies == {"regex", "bm25", "embedding"}

\* The modes a search request may name.
RequestModes == {"regex", "bm25", "embedding", "hybrid", "fuzzy"}

\* strategy.search(query.query, indexedTools, options) of the strategy of `mode`
strategySearch(mode, stats, req) ==
    IF mode = "regex" THEN regexSearch(req.query, req.docs, req.options)
    ELSE IF mode = "bm25" THEN bm25Search(stats, req.query, req.docs, req.options)
    ELSE IF mode = "embedding" THEN embeddingSearch(embed(req.query), req.docs, req.options)
    ELSE hybridSearch(stats, req.query, embed(req.query), req.docs, req.options)

\* SearchOrchestrator.search
orchestratorSearch(mode, stats, req) ==
    IF mode \notin strategies
    THEN [called |-> TRUE, via |-> "orchestrator", mode |-> mode, dispatched |-> "-",
          threw |-> TRUE, results |-> <<>>]
    ELSE [called |-> TRUE, via |-> "orchestrator", mode |-> mode, dispatched |-> mode,
          threw |-> strategySearch(mode, stats, req).threw,
          results |-> strategySearch(mode, stats, req).results]

SearchIdle ==
    /\ searchReq = [query |-> <<"a", "b">>, docs |-> <<>>, options |-> SearchOptions(3, 0)]
    /\ bm25Stats = NoStats
    /\ searchResult = NoSearch

NewQuery ==
    \E q \in Queries \ {searchReq.query} :
        /\ searchReq' = [searchReq EXCEPT !.query = q]
        /\ searchResult' = NoSearch
        /\ UNCHANGED bm25Stats

NewDocs ==
    \E d \in DocLists \ {searchReq.docs} :
        /\ searchReq' = [searchReq EXCEPT !.docs = d]
        /\ searchResult' = NoSearch
        /\ UNCHANGED bm25Stats

NewOptions ==
    \E k \in TopKs, t \in Thresholds :
        /\ SearchOptions(k, t) # searchReq.options
        /\ searchReq' = [searchReq EXCEPT !.options = SearchOptions(k, t)]
        /\ searchResult' = NoSearch
        /\ UNCHANGED bm25Stats

\* setStats(stats) with the statistics stored in a loaded index
SetStats ==
    \E d \in DocLists :
        /\ bm25Stats' = computeStats(d)
        /\ bm25Stats' # bm25Stats
        /\ searchResult' = NoSearch
        /\ UNCHANGED searchReq

\* BM25SearchStrategy.dispose
DisposeStats ==
    /\ bm25Stats.set
    /\ bm25Stats' = NoStats
    /\ searchResult' = NoSearch
    /\ UNCHANGED searchReq

SearchRegex ==
    /\ searchResult' = Searched("regex",
           regexSearch(searchReq.query, searchReq.docs, searchReq.options))
    /\ UNCHANGED <<searchReq, bm25Stats>>

SearchBM25 ==
    /\ searchResult' = Searched("bm25",
           bm25Search(bm25Stats, searchReq.query, searchReq.docs, searchReq.options))
    /\ bm25Stats' = StatsFor(bm25Stats, searchReq.docs)
    /\ UNCHANGED searchReq

SearchEmbedding ==
    /\ searchResult' = Searched("embedding",
           embeddingSearch(embed(searchReq.query), searchReq.docs, searchReq.options))
    /\ UNCHANGED <<searchReq, bm25Stats>>

SearchHybrid ==
    /\ searchResult' = Searched("hybrid",
           hybridSearch(bm25Stats, searchReq.query, embed(searchReq.query),
                        searchReq.docs, searchReq.options))
    /\ bm25Stats' = IF WithEmbeddings(searchReq.docs) = <<>> THEN bm25Stats
                    ELSE StatsFor(bm25Stats, searchReq.docs)
    /\ UNCHANGED searchReq

\* A search request handed to the orchestrator.
OrchestratorSearch ==
    \E mode \in RequestModes :
        /\ searchResult' = orchestratorSearch(mode, bm25Stats, searchReq)
        /\ bm25Stats' = IF mode = "bm25" /\ mode \in strategies
                        THEN StatsFor(bm25Stats, searchReq.docs)
                        ELSE IF mode = "hybrid" /\ mode \in strategies
                                /\ WithEmbeddings(searchReq.docs) # <<>>
                        THEN StatsFor(bm25Stats, searchReq.docs)
                        ELSE bm25Stats
        /\ UNCHANGED searchReq

SearchNext ==
    \/ NewQuery
    \/ NewDocs
    \/ NewOptions
    \/ SetStats
    \/ DisposeStats
    \/ SearchRegex
    \/ SearchBM25
    \/ SearchEmbedding
    \/ SearchHybrid
    \/ OrchestratorSearch

---------------------------------------------------------------------------
(* Server configuration resolver: mcp-config.ts, mcp-config-loader.ts,    *)
(* commands/mcp.ts                                                         *)

\* The definitions a config file may hold for a server in this component.
CfgChoices == {ServerConfig("none", FALSE), ServerConfig("bearer", TRUE)}

NoEntry == [config |-> NoServer, source |-> "-"]

\* loadMcpConfigs: the sources in the order user, project, local
loadMcpConfigs ==
    <<[type |-> "user", config |-> cfgServers["user"]],
      [type |-> "project", config |-> cfgServers["project"]],
      [type |-> "local", config |-> cfgServers["local"]]>>

\* for (const source of sources) ... serverMap.set(name, ...), keeping the
\* entry that is already in the map.
RECURSIVE mergeMcpServers_FirstWins(_, _)
mergeMcpServers_FirstWins(sources, serverMap) ==
    IF sources = <<>> THEN serverMap
    ELSE mergeMcpServers_FirstWins(Tail(sources),
            [n \in ServerNames |->
                IF Head(sources).config[n].present /\ ~serverMap[n].config.present
                THEN [config |-> Head(sources).config[n], source |-> Head(sources).type]
                ELSE serverMap[n]])

\* for (const source of sources) ... serverMap.set(name, {name, config, source})
RECURSIVE mergeMcpServers(_, _)
mergeMcpServers(sources, serverMap) ==
    IF sources = <<>> THEN serverMap
    ELSE mergeMcpServers(Tail(sources),
            [n \in ServerNames |->
                IF Head(sources).config[n].present
                THEN [config |-> Head(sources).config[n], source |-> Head(sources).type]
                ELSE serverMap[n]])

\* getAllConfigPaths: the scopes "in order of precedence"
getAllConfigPaths == <<"local", "project", "user">>

Reverse(s) == [i \in 1..Len(s) |-> s[Len(s) + 1 - i]]

\* getAllServers of the mcp command: servers.set over the reversed paths
RECURSIVE SetFromPaths(_, _)
SetFromPaths(paths, servers) ==
    IF paths = <<>> THEN servers
    ELSE SetFromPaths(Tail(paths),
            [n \in ServerNames |->
                IF cfgServers[Head(paths)][n].present
                THEN [config |-> cfgServers[Head(paths)][n], source |-> Head(paths)]
                ELSE servers[n]])

getAllServers == SetFromPaths(Reverse(getAllConfigPaths), [n \in ServerNames |-> NoEntry])

\* The callers' views of the merged configuration: the loader with an index
\* scope (or none), the discovery merge, and the mcp command.
Views ==
    {<<"getAllMcpServers", "none">>, <<"getAllMcpServers", "project">>,
     <<"getAllMcpServers", "user">>, <<"mergeMcpServers", "-">>, <<"getAllServers", "-">>}

ViewOf(view) ==
    IF view[1] = "getAllMcpServers"
    THEN [n \in ServerNames |-> [config |-> getAllMcpServers(view[2])[n], source |-> "-"]]
    ELSE IF view[1] = "mergeMcpServers"
    THEN mergeMcpServers(loadMcpConfigs, [n \in ServerNames |-> NoEntry])
    ELSE getAllServers

NoMerged ==
    [called |-> FALSE, by |-> "-", indexScope |-> "-",
     servers |-> [n \in ServerNames |-> NoEntry]]

CfgIdle == merged = NoMerged

\* mcp add, mcp remove or a hand edit: one server definition in one file is
\* written, replaced or deleted.
WriteConfig ==
    \E s \in ScopeSet, n \in ServerNames, c \in CfgChoices \cup {NoServer} :
        /\ c # cfgServers[s][n]
        /\ cfgServers' = [cfgServers EXCEPT ![s][n] = c]
        /\ merged' = NoMerged

\* A caller resolves the merged configuration.
ResolveConfig ==
    \E view \in Views :
        /\ merged' = [called |-> TRUE, by |-> view[1], indexScope |-> view[2],
                      servers |-> ViewOf(view)]
        /\ UNCHANGED cfgServers

CfgNext == WriteConfig \/ ResolveConfig

---------------------------------------------------------------------------
(* Discovery pass and single-shot transport operations: mcp-client.ts,     *)
(* mcp-config-loader.ts, and the discovery of the indexer                  *)

TimeoutTicks == 2     \* the configured connection timeout, in clock ticks

\* The upstreams of the merged configuration, in the order of the Map.
DiscOrder == <<"a", "a__b", "fs">>
DiscNames == Range(DiscOrder)

\* What each clients answers to listTools with.
ListedTools == [a |-> <<"b__c", "read">>, a__b |-> <<"c">>, fs |-> <<"read">>]

\* The upstreams configured with authorization.type = 'oauth2' and a url.
OAuthServers == {"a__b"}

\* The exclude options a pass is started with.
ExcludeChoices == {{}, {"a"}}

\* tools.map(...) of listToolsFromServer: the name as listed, the server as metadata
RECURSIVE ListedAs(_, _)
ListedAs(toolNames, serverName) ==
    IF toolNames = <<>> THEN <<>>
    ELSE <<[name |-> Head(toolNames), server |-> serverName,
            originalName |-> Head(toolNames)]>>
         \o ListedAs(Tail(toolNames), serverName)

\* flattenServerTools: the tools of every result without an error, in order
RECURSIVE flattenServerTools(_)
flattenServerTools(results) ==
    IF results = <<>> THEN <<>>
    ELSE (IF Head(results).error = "-" THEN Head(results).tools ELSE <<>>)
         \o flattenServerTools(Tail(results))

\* Client session states: Idle, Connecting, Ready, Closing, Closed.
NoUpstream ==
    [session |-> "Idle", queried |-> FALSE, request |-> "-", outcome |-> "-", closes |-> 0]

NoPass ==
    [path |-> "-", pc |-> "idle", servers |-> <<>>, i |-> 1, exclude |-> {},
     pending |-> "-", output |-> <<>>, results |-> <<>>, saved |-> FALSE]

DiscIdle ==
    /\ pass = NoPass
    /\ clients = [u \in DiscNames |-> NoUpstream]
    /\ elapsed = 0

cur == pass.servers[pass.i]

\* The catch of the loop body: the error is recorded and the loop goes on.
NextAfterError(i) == i + 1

\* A rejected step that leaves the operation at once.
OnReject_SkipClose(path) == "settle"

\* Where a rejected connect or request continues: the catch block of
\* fetchToolsFromMcpServer / callToolOnMcpServer, the finally block of
\* listToolsFromServer.
OnReject(path) == IF path = "discover" THEN "finally" ELSE "catchClose"

\* A successful request that returns its result at once.
AfterRequestOk_NoClose(path) == "settle"

\* Where a successful request continues: `await client.close()` inside the
\* try block, or the finally block of listToolsFromServer.
AfterRequestOk(path) == IF path = "discover" THEN "finally" ELSE "closing"

\* index command or auto-index (loadToolsFromMcpServers), or the indexer
\* (discoverToolsFromServers): a pass over the configured upstreams starts.
StartPass ==
    \E path \in {"load", "discover"}, ex \in ExcludeChoices :
        /\ pass.pc \in {"idle", "done"}
        /\ pass' = [NoPass EXCEPT !.path = path, !.pc = "next", !.servers = DiscOrder,
                                  !.exclude = ex]
        /\ clients' = [u \in DiscNames |-> NoUpstream]
        /\ elapsed' = 0

\* callToolOnMcpServer is called for one upstream.
StartCall ==
    \E u \in DiscNames :
        /\ pass.pc \in {"idle", "done"}
        /\ pass' = [NoPass EXCEPT !.path = "call", !.pc = "transport", !.servers = <<u>>]
        /\ clients' = [v \in DiscNames |->
                            IF v = u THEN [NoUpstream EXCEPT !.queried = TRUE] ELSE NoUpstream]
        /\ elapsed' = 0

\* `continue` for an excluded server / the filter of serversToQuery
SkipUpstream ==
    /\ pass.pc = "next" /\ pass.i <= Len(pass.servers)
    /\ cur \in pass.exclude
    /\ pass' = [pass EXCEPT !.i = @ + 1]
    /\ UNCHANGED <<clients, elapsed>>

\* The loop body starts on the next upstream.
BeginUpstream ==
    /\ pass.pc = "next" /\ pass.i <= Len(pass.servers)
    /\ cur \notin pass.exclude
    /\ clients' = [clients EXCEPT ![cur].queried = TRUE]
    /\ pass' = [pass EXCEPT !.pc = IF pass.path = "load" /\ cur \in OAuthServers
                                   THEN "auth" ELSE "transport"]
    /\ UNCHANGED elapsed

\* hasSession / getAccessToken for an OAuth upstream: a token, or an error
\* caught by the loop body.
Authenticate ==
    \E ok \in BOOLEAN :
        /\ pass.pc = "auth"
        /\ IF ok
           THEN /\ pass' = [pass EXCEPT !.pc = "transport"]
                /\ UNCHANGED clients
           ELSE /\ pass' = [pass EXCEPT !.pc = "next", !.i = NextAfterError(pass.i)]
                /\ clients' = [clients EXCEPT ![cur].outcome = "auth"]
        /\ UNCHANGED elapsed

\* createTransport, then client.connect(transport) is started. An invalid
\* configuration throws: inside the try block of fetchToolsFromMcpServer and
\* callToolOnMcpServer, before the try block of listToolsFromServer.
CreateTransport ==
    \E ok \in BOOLEAN :
        /\ pass.pc = "transport"
        /\ IF ok
           THEN /\ clients' = [clients EXCEPT ![cur].session = "Connecting"]
                /\ pass' = [pass EXCEPT !.pc = "connecting"]
           ELSE /\ clients' = [clients EXCEPT ![cur].request = "transport"]
                /\ pass' = [pass EXCEPT !.pending = "transport",
                                        !.pc = IF pass.path = "discover" THEN "settle"
                                               ELSE "catchClose"]
        /\ elapsed' = 0

ConnectOk ==
    /\ pass.pc = "connecting"
    /\ clients' = [clients EXCEPT ![cur].session = "Ready"]
    /\ pass' = [pass EXCEPT !.pc = "requesting"]
    /\ UNCHANGED elapsed

ConnectFail ==
    /\ pass.pc = "connecting"
    /\ clients' = [clients EXCEPT ![cur].request = "connect"]
    /\ pass' = [pass EXCEPT !.pending = "connect", !.pc = OnReject(pass.path)]
    /\ UNCHANGED elapsed

\* timeoutPromise of listToolsFromServer rejects and wins the race.
ConnectTimeout ==
    /\ pass.pc = "connecting" /\ pass.path = "discover"
    /\ elapsed >= TimeoutTicks
    /\ clients' = [clients EXCEPT ![cur].request = "timeout"]
    /\ pass' = [pass EXCEPT !.pending = "timeout", !.pc = OnReject(pass.path)]
    /\ UNCHANGED elapsed

\* Time passes while the operation awaits the upstream; the timer of a race
\* fires before time passes beyond it.
WaitTick ==
    /\ pass.pc \in {"connecting", "requesting"}
    /\ elapsed <= TimeoutTicks
    /\ ~(pass.pc = "connecting" /\ pass.path = "discover" /\ elapsed >= TimeoutTicks)
    /\ elapsed' = elapsed + 1
    /\ UNCHANGED <<pass, clients>>

\* client.listTools() / client.callTool() answers.
RequestOk ==
    /\ pass.pc = "requesting"
    /\ clients' = [clients EXCEPT ![cur].request = "ok"]
    /\ pass' = [pass EXCEPT !.pending = "result", !.pc = AfterRequestOk(pass.path)]
    /\ UNCHANGED elapsed

RequestFail ==
    /\ pass.pc = "requesting"
    /\ clients' = [clients EXCEPT ![cur].request = "list"]
    /\ pass' = [pass EXCEPT !.pending = "list", !.pc = OnReject(pass.path)]
    /\ UNCHANGED elapsed

\* client.close(): in the try block after the request (an error goes to the
\* catch block, which closes again and rethrows it), in the catch block
\* (.catch(() => {})), or in the finally block (errors ignored).
CloseSession ==
    \E raised \in BOOLEAN :
        /\ pass.pc \in {"closing", "catchClose", "finally"}
        /\ raised => clients[cur].session # "Idle"
        /\ clients' = [clients EXCEPT ![cur].closes = @ + 1,
                                        ![cur].session = IF raised THEN "Closing" ELSE "Closed"]
        /\ pass' = IF pass.pc = "closing" /\ raised
                   THEN [pass EXCEPT !.pending = "close", !.pc = "catchClose"]
                   ELSE [pass EXCEPT !.pc = "settle"]
        /\ UNCHANGED elapsed

\* The operation returns or raises to its caller: allTools.push(...tools) or
\* the catch of loadToolsFromMcpServers; results.push(result) of
\* discoverToolsFromServers; the return of callToolOnMcpServer.
Settle ==
    /\ pass.pc = "settle"
    /\ clients' = [clients EXCEPT ![cur].outcome =
                        IF pass.pending = "result" THEN "ok" ELSE pass.pending]
    /\ pass' = [pass EXCEPT
            !.pending = "-",
            !.pc = IF pass.path = "call" THEN "done" ELSE "next",
            !.i = IF pass.path = "call" THEN @
                  ELSE IF pass.pending = "result" THEN @ + 1 ELSE NextAfterError(@),
            !.output = IF pass.path = "load" /\ pass.pending = "result"
                       THEN @ \o ConvertAll(ListedTools[cur], cur) ELSE @,
            !.results = IF pass.path = "discover"
                        THEN Append(@, [serverName |-> cur,
                                        tools |-> IF pass.pending = "result"
                                                  THEN ListedAs(ListedTools[cur], cur)
                                                  ELSE <<>>,
                                        error |-> IF pass.pending = "result" THEN "-"
                                                  ELSE pass.pending])
                        ELSE @]
    /\ UNCHANGED elapsed

\* The loop is over: the tools are built into an index and saved, unless
\* there is none.
FinishPass ==
    /\ pass.pc = "next" /\ pass.i > Len(pass.servers)
    /\ pass' = [pass EXCEPT
            !.pc = "done",
            !.output = IF pass.path = "discover" THEN flattenServerTools(pass.results) ELSE @,
            !.saved = IF pass.path = "discover" THEN flattenServerTools(pass.results) # <<>>
                      ELSE pass.output # <<>>]
    /\ UNCHANGED <<clients, elapsed>>

DiscNext ==
    \/ StartPass
    \/ StartCall
    \/ SkipUpstream
    \/ BeginUpstream
    \/ Authenticate
    \/ CreateTransport
    \/ ConnectOk
    \/ ConnectFail
    \/ ConnectTimeout
    \/ WaitTick
    \/ RequestOk
    \/ RequestFail
    \/ CloseSession
    \/ Settle
    \/ FinishPass

---------------------------------------------------------------------------
(* Index store: IndexStorage.save, load and exists (core/index/storage.ts) *)

\* A version string as the segments that split('.') yields.
StorageVersion == <<"1", "0", "0">>

\* Versions found in index files: the current one, a later minor, a later
\* patch, another major, an earlier major with a later minor, an empty string.
FileVersions ==
    {StorageVersion, <<"1", "2", "0">>, <<"1", "0", "3">>, <<"2", "0", "0">>,
     <<"0", "9", "0">>, <<>>}

ToolSets == {"tools-1", "tools-2"}

\* File contents: no file, text that is not a JSON document (the empty file,
\* the beginning of a document, anything else), or a JSON document with or
\* without a version field.
NoFile == [kind |-> "missing", text |-> "", hasVersion |-> FALSE, version |-> <<>>, tools |-> ""]
TextFile(t) == [kind |-> "text", text |-> t, hasVersion |-> FALSE, version |-> <<>>, tools |-> ""]
JsonFile(v, tools) ==
    [kind |-> "json", text |-> "", hasVersion |-> TRUE, version |-> v, tools |-> tools]
UnversionedFile(tools) ==
    [kind |-> "json", text |-> "", hasVersion |-> FALSE, version |-> <<>>, tools |-> tools]

EmptyFile == TextFile("")
PartialFile == TextFile("{ \"version\": \"1.0.0\", \"tools\": [")

PlacedFiles ==
    {NoFile, TextFile("not json")}
        \cup {JsonFile(v, "tools-1") : v \in FileVersions}
        \cup {UnversionedFile("tools-1")}

\* persistedIndex of save: the current version and the tools handed in.
PersistedIndex(tools) == JsonFile(StorageVersion, tools)

Loaded(f) == [ok |-> TRUE, data |-> f]
LoadFailed == [ok |-> FALSE, data |-> NoFile]

\* IndexStorage.load with the version compared as a whole.
load_ExactVersion(f) ==
    IF f.kind # "json" THEN LoadFailed
    ELSE IF ~f.hasVersion \/ f.version = <<>> THEN LoadFailed
    ELSE IF f.version # StorageVersion THEN LoadFailed
    ELSE Loaded(f)

\* IndexStorage.load: readFile and JSON.parse throw for a missing file and
\* for text that is no JSON document; a missing or empty version and a
\* different first segment throw.
load(f) ==
    IF f.kind # "json" THEN LoadFailed
    ELSE IF ~f.hasVersion \/ f.version = <<>> THEN LoadFailed
    ELSE IF Head(f.version) # Head(StorageVersion) THEN LoadFailed
    ELSE Loaded(f)

\* IndexStorage.exists: try { await this.load(indexPath); return true } catch { return false }
exists(f) == load(f).ok

NoSaver == [pc |-> "idle", doc |-> NoFile, previous |-> NoFile]

NoStoreResult ==
    [called |-> FALSE, op |-> "-", read |-> NoFile, ok |-> FALSE, data |-> NoFile,
     value |-> FALSE, during |-> "idle", previous |-> NoFile, next |-> NoFile]

StoreIdle ==
    /\ storeFile = NoFile
    /\ saver = NoSaver
    /\ storeResult = NoStoreResult

\* Another version of the tool, or a hand edit, leaves a file at the path.
PlaceFile ==
    \E f \in PlacedFiles :
        /\ saver.pc = "idle"
        /\ f # storeFile
        /\ storeFile' = f
        /\ storeResult' = NoStoreResult
        /\ UNCHANGED saver

\* save is called: the document is computed and the directory made.
SaveBegin ==
    \E tools \in ToolSets :
        /\ saver.pc = "idle"
        /\ saver' = [pc |-> "mkdir", doc |-> PersistedIndex(tools), previous |-> storeFile]
        /\ storeResult' = NoStoreResult
        /\ UNCHANGED storeFile

\* writeFile opens the path for writing, which creates or truncates the file.
SaveOpen ==
    /\ saver.pc = "mkdir"
    /\ storeFile' = EmptyFile
    /\ saver' = [saver EXCEPT !.pc = "opened"]
    /\ UNCHANGED storeResult

\* writeFile has written the beginning of the document.
SaveWritePart ==
    /\ saver.pc = "opened"
    /\ storeFile' = PartialFile
    /\ saver' = [saver EXCEPT !.pc = "writing"]
    /\ UNCHANGED storeResult

\* writeFile has written the document (the rest of it) and save returns.
SaveWriteAll ==
    /\ saver.pc \in {"opened", "writing"}
    /\ storeFile' = saver.doc
    /\ saver' = NoSaver
    /\ UNCHANGED storeResult

\* load(path) by this or another process, possibly while a save is under way.
LoadIndex ==
    /\ storeResult' =
         [called |-> TRUE, op |-> "load", read |-> storeFile, ok |-> load(storeFile).ok,
          data |-> load(storeFile).data, value |-> FALSE, during |-> saver.pc,
          previous |-> saver.previous, next |-> saver.doc]
    /\ UNCHANGED <<storeFile, saver>>

\* exists(path), as the rebuild gate calls it.
ExistsIndex ==
    /\ storeResult' =
         [called |-> TRUE, op |-> "exists", read |-> storeFile, ok |-> FALSE,
          data |-> NoFile, value |-> exists(storeFile), during |-> saver.pc,
          previous |-> saver.previous, next |-> saver.doc]
    /\ UNCHANGED <<storeFile, saver>>

StoreNext ==
    \/ PlaceFile
    \/ SaveBegin
    \/ SaveOpen
    \/ SaveWritePart
    \/ SaveWriteAll
    \/ LoadIndex
    \/ ExistsIndex

---------------------------------------------------------------------------
(* Index cache: IndexManager.saveIndex / loadIndex (core/index/index.ts)   *)
(* and cachedIndex of the gateway server (server.ts)                       *)

\* The IndexManager of the gateway server, and the one an index or serve
\* command creates.
Managers == {"gateway", "command"}

IndexPaths == {"project-index", "user-index"}

\* config.indexPath of the gateway server
ServerIndexPath == "project-index"

IndexDocs == {"doc-1", "doc-2"}
NoDoc == "none"

NoCache == [cachedIndex |-> NoDoc, cachedIndexPath |-> NoDoc]

NoRead == [called |-> FALSE, by |-> "-", path |-> "-", threw |-> FALSE, answer |-> NoDoc]

CacheIdle ==
    /\ savedIndex = [p \in IndexPaths |-> NoDoc]
    /\ managerCache = [m \in Managers |-> NoCache]
    /\ serverCachedIndex = NoDoc
    /\ readResult = NoRead

\* IndexManager.saveIndex: "Invalidate cache if same path"
cacheAfterSave(cache, outputPath) ==
    IF cache.cachedIndexPath = outputPath THEN NoCache ELSE cache

\* IndexManager.loadIndex: the cached index for the same path, or the file,
\* which is then cached; storage.load throws when there is no file.
loadIndex(cache, indexPath) ==
    IF cache.cachedIndexPath = indexPath /\ cache.cachedIndex # NoDoc
    THEN [threw |-> FALSE, index |-> cache.cachedIndex, cache |-> cache]
    ELSE IF savedIndex[indexPath] = NoDoc
    THEN [threw |-> TRUE, index |-> NoDoc, cache |-> cache]
    ELSE [threw |-> FALSE, index |-> savedIndex[indexPath],
          cache |-> [cachedIndex |-> savedIndex[indexPath], cachedIndexPath |-> indexPath]]

\* indexManager.saveIndex(indexedTools, outputPath) has completed.
SaveIndex ==
    \E m \in Managers, p \in IndexPaths, d \in IndexDocs :
        /\ d # savedIndex[p]
        /\ savedIndex' = [savedIndex EXCEPT ![p] = d]
        /\ managerCache' = [managerCache EXCEPT ![m] = cacheAfterSave(@, p)]
        /\ readResult' = NoRead
        /\ UNCHANGED serverCachedIndex

\* indexManager.loadIndex(indexPath) / getIndexedTools
ReadIndex ==
    \E m \in Managers, p \in IndexPaths :
        LET r == loadIndex(managerCache[m], p)
        IN  /\ managerCache' = [managerCache EXCEPT ![m] = r.cache]
            /\ readResult' = [called |-> TRUE, by |-> m, path |-> p, threw |-> r.threw,
                              answer |-> r.index]
            /\ UNCHANGED <<savedIndex, serverCachedIndex>>

\* A search_tools, list_tools or get_tool request on the gateway:
\* if (!this.cachedIndex) this.cachedIndex = await this.indexManager.loadIndex(...)
GatewayRequest ==
    LET r == loadIndex(managerCache["gateway"], ServerIndexPath)
    IN  IF serverCachedIndex # NoDoc
        THEN /\ readResult' = [called |-> TRUE, by |-> "server", path |-> ServerIndexPath,
                               threw |-> FALSE, answer |-> serverCachedIndex]
             /\ UNCHANGED <<savedIndex, managerCache, serverCachedIndex>>
        ELSE /\ managerCache' = [managerCache EXCEPT !["gateway"] = r.cache]
             /\ serverCachedIndex' = r.index
             /\ readResult' = [called |-> TRUE, by |-> "server", path |-> ServerIndexPath,
                               threw |-> r.threw, answer |-> r.index]
             /\ UNCHANGED savedIndex

CacheNext ==
    \/ SaveIndex
    \/ ReadIndex
    \/ GatewayRequest

---------------------------------------------------------------------------
(* Specifications                                                          *)

Init == RegenInit /\ ExecInit /\ MergeIdle /\ TokenIdle /\ SearchIdle /\ CfgIdle /\ DiscIdle /\ StoreIdle /\ CacheIdle /\ TokenQueryIdle

SpecRegen ==
    Init /\ [][RegenNext /\ UNCHANGED <<execVars, mergeVars, tokenVars, searchVars, cfgVars, discVars, storeVars, cacheVars, tokenQueryVars>>]_vars

SpecExec ==
    Init /\ regenScope = "project"
         /\ [][ExecNext /\ UNCHANGED <<regenVars, mergeVars, now, loadResult,
                                       searchVars, cfgVars, discVars, storeVars, cacheVars, tokenQueryVars>>]_vars

InitMerge ==
    RegenInit /\ regenScope = "project" /\ ExecInit /\ MergeInit /\ TokenIdle /\ SearchIdle /\ CfgIdle /\ DiscIdle /\ StoreIdle /\ CacheIdle /\ TokenQueryIdle

SpecMerge ==
    InitMerge
        /\ [][MergeNext /\ UNCHANGED <<regenVars, execVars, tokenVars, searchVars, cfgVars, discVars, storeVars, cacheVars, tokenQueryVars>>]_vars

SpecToken ==
    Init /\ regenScope = "project"
         /\ [][TokenNext /\ UNCHANGED <<regenVars, mergeVars, toolIndex, cfgServers,
                                        registeredTools, mcpCachedIndex, lastExec,
                                        searchVars, cfgVars, discVars, storeVars, cacheVars>>]_vars

SpecSearch ==
    Init /\ regenScope = "project"
         /\ [][SearchNext /\ UNCHANGED <<regenVars, execVars, mergeVars, tokenVars, cfgVars, discVars, storeVars, cacheVars, tokenQueryVars>>]_vars

SpecConfig ==
    Init /\ regenScope = "project"
         /\ [][CfgNext /\ UNCHANGED <<regenVars, mergeVars, tokenVars, searchVars,
                                      toolIndex, tokenFiles, registeredTools,
                                      mcpCachedIndex, lastExec, discVars, storeVars, cacheVars, tokenQueryVars>>]_vars

SpecDiscovery ==
    Init /\ regenScope = "project"
         /\ [][DiscNext /\ UNCHANGED <<regenVars, execVars, mergeVars, tokenVars,
                                       searchVars, cfgVars, storeVars, cacheVars, tokenQueryVars>>]_vars

SpecStore ==
    Init /\ regenScope = "project"
         /\ [][StoreNext /\ UNCHANGED <<regenVars, execVars, mergeVars, tokenVars,
                                        searchVars, cfgVars, discVars, cacheVars, tokenQueryVars>>]_vars

SpecCache ==
    Init /\ regenScope = "project"
         /\ [][CacheNext /\ UNCHANGED <<regenVars, execVars, mergeVars, tokenVars,
                                        searchVars, cfgVars, discVars, storeVars, tokenQueryVars>>]_vars

---------------------------------------------------------------------------
(* Claims                                                                  *)

\* C1: the verdict of checkIndexRegeneration is "rebuild" exactly when its
\* list of reasons is not empty, on every return path.
C1_RebuildIffReasons ==
    regenResult.called => (regenResult.needsRebuild <=> Len(regenResult.reasons) > 0)

\* The detector has run on an index with build metadata and collected exactly
\* one reason on the accumulating return path.
C1_Witness ==
    /\ regenResult.called
    /\ Len(regenResult.reasons) = 1
    /\ regenResult.reasons[1].kind \in {"cli version", "mode", "provider", "dtype",
                                         "exclude", "config"}


---------------------------------------------------------------------------
(* Conditions of an execution request, read off the files as they are      *)

\* Position of the first index entry carrying the requested name, 0 if none.
EntryOf(tools, toolName) ==
    IF \E i \in 1..Len(tools) : tools[i].name = toolName
    THEN CHOOSE i \in 1..Len(tools) :
             /\ tools[i].name = toolName
             /\ \A j \in 1..(i - 1) : tools[j].name # toolName
    ELSE 0

\* The definition of server n that takes effect: local over project over user.
EffectiveConfig(n) ==
    IF n \notin ServerNames THEN NoServer
    ELSE IF cfgServers["local"][n].present THEN cfgServers["local"][n]
    ELSE IF cfgServers["project"][n].present THEN cfgServers["project"][n]
    ELSE cfgServers["user"][n]

\* A session with an access token or a refresh token is stored for n's URL.
StoredSession(n) ==
    LET f == tokenFiles[getTokenPath(UrlOf(n))]
    IN  f.kind = "session" /\ (f.access_token # 0 \/ f.refresh_token # 0)

\* A server definition that demands an OAuth session: every oauth2 definition
\* (urlOnly = FALSE), or only the oauth2 definitions that carry a url.
DemandsSession(cfg, urlOnly) == cfg.auth = "oauth2" /\ (urlOnly => cfg.url)

\* The result code the request (tools, toolName) must end in.
ExpectedCode(tools, toolName, upstream, urlOnly) ==
    LET i == EntryOf(tools, toolName) IN
    IF i = 0 THEN "TOOL_NOT_FOUND"
    ELSE IF tools[i].server = "" \/ tools[i].originalName = "" THEN "METADATA_MISSING"
    ELSE IF ~EffectiveConfig(tools[i].server).present THEN "SERVER_NOT_CONFIGURED"
    ELSE IF DemandsSession(EffectiveConfig(tools[i].server), urlOnly)
            /\ ~StoredSession(tools[i].server)
         THEN "AUTH_REQUIRED"
    ELSE IF upstream \in {"connect_error", "call_error"} THEN "EXECUTION_FAILED"
    ELSE "SUCCESS"

CliReturned == lastExec.via = "cli" /\ lastExec.code # "RAISED"

ReachedUpstream == lastExec.sent # NoRequest

\* C3: an execution of a discovered tool S__n that reaches the upstream sends
\* the callTool request to server S under the upstream's own name n, never
\* under the prefixed name S__n; this holds for the CLI executor and for the
\* gateway's call_tool handler.
C3_OriginalNameSent ==
    ReachedUpstream =>
        /\ lastExec.sent.name # lastExec.toolName
        /\ \E S \in ServerNames :
             \E k \in 1..Len(UpstreamTools[S]) :
                /\ lastExec.toolName = S \o "__" \o UpstreamTools[S][k]
                /\ lastExec.sent.server = S
                /\ lastExec.sent.name = UpstreamTools[S][k]

C3_Witness ==
    /\ lastExec.via = "cli"
    /\ lastExec.toolName = "fs__read"
    /\ lastExec.sent.server = "fs"
    /\ lastExec.sent.name = "read"
    /\ lastExec.code = "SUCCESS"

NamesOf(index) == {index.tools[i].name : i \in 1..Len(index.tools)}

\* C5: mergeIndexedTools(P, U), with either index possibly absent, contains
\* every tool name that occurs in P or in U, and for a name that occurs in
\* both the returned record is a record of P.
C5_MergeCoversAndProjectWins ==
    mergeResult.called =>
        /\ \A n \in NamesOf(projectIndex) \cup NamesOf(userIndex) :
              \E i \in 1..Len(mergeResult.tools) : mergeResult.tools[i].name = n
        /\ \A n \in NamesOf(projectIndex) \cap NamesOf(userIndex) :
              \A i \in 1..Len(mergeResult.tools) :
                 mergeResult.tools[i].name = n =>
                    /\ mergeResult.tools[i].from = "project"
                    /\ \E j \in 1..Len(projectIndex.tools) :
                          projectIndex.tools[j] = mergeResult.tools[i]

C5_Witness ==
    /\ mergeResult.called
    /\ NamesOf(projectIndex) \cap NamesOf(userIndex) # {}
    /\ NamesOf(userIndex) \ NamesOf(projectIndex) # {}
    /\ NamesOf(projectIndex) \ NamesOf(userIndex) # {}

\* C6: after saveSession(url, s) with no later write for url, loadSession(url)
\* returns s if and only if s.expiresAt is absent or later than the time of
\* the call, and loadSession(url, includeExpired = true) returns s whatever
\* its expiry.
C6_LoadAfterSave ==
    (loadResult.called /\ lastSaved[loadResult.url].found) =>
        LET s == lastSaved[loadResult.url].session
            returnsS == loadResult.found /\ loadResult.session = s
        IN  IF loadResult.includeExpired THEN returnsS
            ELSE returnsS <=> (s.expiresAt = NoExpiry \/ s.expiresAt > now)

C6_Witness ==
    /\ loadResult.called
    /\ ~loadResult.includeExpired
    /\ lastSaved[loadResult.url].found
    /\ lastSaved[loadResult.url].session.expiresAt = now
    /\ ~loadResult.found
    /\ loadSession(loadResult.url, TRUE).found

SearchReturned == searchResult.called /\ ~searchResult.threw

ScoreOf(results, name) ==
    LET i == CHOOSE i \in 1..Len(results) : results[i].name = name IN results[i].score

NamesIn(results) == [i \in 1..Len(results) |-> results[i].name]

\* The largest rounded, not yet normalized BM25 score of the request at hand.
LargestBM25Score ==
    MaxScore(BM25Scored(bm25Stats, tokenize(searchReq.query), searchReq.docs,
                        searchReq.options.threshold), 0)

C8_AsStated ==
    SearchReturned =>
        \A i \in 1..Len(searchResult.results) :
            searchResult.results[i].score * Milli >= searchReq.options.threshold

\* The sub-result orders of the hybrid search on the request at hand.
BM25SubOrder ==
    NamesIn(bm25Search(bm25Stats, searchReq.query, searchReq.docs,
                       SearchOptions(searchReq.options.topK * topKMultiplier, 0)).results)

EmbeddingSubOrder ==
    NamesIn(embeddingSearch(embed(searchReq.query), searchReq.docs,
                            SearchOptions(searchReq.options.topK * topKMultiplier, 0)).results)

C9_Case ==
    /\ SearchReturned
    /\ searchResult.mode = "hybrid"
    /\ searchReq.options.threshold = 0
    /\ BM25SubOrder = <<"A", "B", "C">>
    /\ EmbeddingSubOrder = <<"C", "B", "A">>

\* C9 (as amended): with k = 60, BM25 sub-result order A, B, C and embedding
\* sub-result order C, B, A, the fused sums are A = C = 1/61 + 1/63 and
\* B = 2/62 < A, so A and C come first; normalized and rounded to three
\* decimals all three scores are 1.0: score(A) = score(C) and
\* score(B) = score(A), never score(B) > score(A).
C9_FusedScores ==
    C9_Case =>
        LET r == searchResult.results IN
        /\ NamesIn(r) = SubSeq(<<"A", "C", "B">>, 1, Len(r))
        /\ \A i \in 1..Len(r) : r[i].score = Milli

\* C9 as stated: score(B) > score(A) and score(A) = score(C).
C9_AsStated ==
    (C9_Case /\ Len(searchResult.results) = 3) =>
        /\ ScoreOf(searchResult.results, "B") > ScoreOf(searchResult.results, "A")
        /\ ScoreOf(searchResult.results, "A") = ScoreOf(searchResult.results, "C")

C9_Witness ==
    /\ C9_Case
    /\ NamesIn(searchResult.results) = <<"A", "C", "B">>
    /\ ScoreOf(searchResult.results, "B") = ScoreOf(searchResult.results, "A")

\* The result a newly constructed strategy returns for the request at hand.
FreshResult(mode) ==
    IF mode = "regex" THEN regexSearch(searchReq.query, searchReq.docs, searchReq.options)
    ELSE IF mode = "bm25"
         THEN bm25Search(NoStats, searchReq.query, searchReq.docs, searchReq.options)
    ELSE IF mode = "embedding"
         THEN embeddingSearch(embed(searchReq.query), searchReq.docs, searchReq.options)
    ELSE hybridSearch(NoStats, searchReq.query, embed(searchReq.query), searchReq.docs,
                      searchReq.options)

\* C10 as stated: a search returns what any other search with the same query,
\* mode, document list and options returns, whatever the instance searched
\* before and whatever statistics it holds; in particular it returns what a
\* newly constructed instance returns for that request.
C10_AsStated ==
    SearchReturned => searchResult.results = FreshResult(searchResult.mode).results

ViaOrchestrator == searchResult.called /\ searchResult.via = "orchestrator"

\* C11 as stated: the orchestrator dispatches a request naming regex, bm25,
\* embedding or hybrid to that mode's strategy, and a request naming any other
\* mode fails without any strategy having run.
C11_AsStated ==
    ViaOrchestrator =>
        IF searchResult.mode \in {"regex", "bm25", "embedding", "hybrid"}
        THEN searchResult.dispatched = searchResult.mode
        ELSE searchResult.threw /\ searchResult.dispatched = "-"

\* The definition of a server in the highest-precedence file that defines it.
HighestDefinition(n) ==
    IF cfgServers["local"][n].present THEN cfgServers["local"][n]
    ELSE IF cfgServers["project"][n].present THEN cfgServers["project"][n]
    ELSE cfgServers["user"][n]

HighestScope(n) ==
    IF cfgServers["local"][n].present THEN "local"
    ELSE IF cfgServers["project"][n].present THEN "project"
    ELSE IF cfgServers["user"][n].present THEN "user" ELSE "-"

DefinedIn(n) == {s \in ScopeSet : cfgServers[s][n].present}

\* C13 as stated: every merged configuration holds, for every server name, the
\* definition of the highest-precedence file that defines it (local over
\* project over user), whoever asked for it.
C13_AsStated ==
    merged.called =>
        \A n \in ServerNames : merged.servers[n].config = HighestDefinition(n)

\* C13: the merged configuration holds for every server name the definition of
\* the highest-precedence file that defines it, and names its scope where the
\* merge records one, except for the loader's view for a user-scoped index,
\* which holds the definitions of the user file alone.
C13_MergedPrecedence ==
    merged.called =>
        \A n \in ServerNames :
            IF merged.by = "getAllMcpServers" /\ merged.indexScope = "user"
            THEN merged.servers[n].config = cfgServers["user"][n]
            ELSE /\ merged.servers[n].config = HighestDefinition(n)
                 /\ merged.by # "getAllMcpServers" => merged.servers[n].source = HighestScope(n)

\* The discovery merge has run on files where one server is defined in all
\* three files, the local definition differing from the user one, and another
\* server in the user file alone.
C13_Witness ==
    /\ merged.called /\ merged.by = "mergeMcpServers"
    /\ \E n \in ServerNames :
        /\ DefinedIn(n) = ScopeSet
        /\ cfgServers["local"][n] # cfgServers["user"][n]
        /\ merged.servers[n].config = cfgServers["local"][n]
    /\ \E n \in ServerNames :
        /\ DefinedIn(n) = {"user"}
        /\ merged.servers[n].config = cfgServers["user"][n]

\* The names of the tools of a sequence of tool definitions.
ToolNamesOf(tools) == [k \in 1..Len(tools) |-> tools[k].name]

NoDuplicates(s) == \A j, k \in 1..Len(s) : s[j] = s[k] => j = k

\* C12 as stated: in every index written after a discovery pass no two
\* indexed tools have the same name.
C12_AsStated ==
    (pass.pc = "done" /\ pass.saved) => NoDuplicates(ToolNamesOf(pass.output))

PassDone == pass.pc = "done" /\ pass.path \in {"load", "discover"}

\* The tools of upstream u as the pass of this path puts them into its output.
OutputOf(u) ==
    IF pass.path = "load" THEN ConvertAll(ListedTools[u], u) ELSE ListedAs(ListedTools[u], u)

\* C14 as stated: when a discovery pass is over, every non-excluded upstream
\* was queried, whatever failed before it, and the tools of every upstream
\* that answered the connect and the listing are in the output of the pass.
C14_AsStated ==
    PassDone =>
        /\ \A u \in DiscNames \ pass.exclude : clients[u].queried
        /\ \A u \in DiscNames :
            clients[u].request = "ok" => Range(OutputOf(u)) \subseteq Range(pass.output)

Open(u) == clients[u].session \in {"Connecting", "Ready"}

\* C15: during a discovery pass at most one upstream session is Connecting or
\* Ready, and while one is, every other upstream's client is still Idle or has
\* had its close attempted, a timed-out attempt included.
C15_OneSessionOpen ==
    /\ Cardinality({u \in DiscNames : Open(u)}) <= 1
    /\ \A u, v \in DiscNames :
        (Open(u) /\ v # u) => (clients[v].session = "Idle" \/ clients[v].closes >= 1)

\* The indexer's pass is connecting to an upstream after the attempt on an
\* earlier upstream ended by timeout and its client was closed.
C15_Witness ==
    /\ pass.path = "discover" /\ pass.pc = "connecting"
    /\ \E v \in DiscNames :
        /\ clients[v].request = "timeout" /\ clients[v].outcome = "timeout"
        /\ clients[v].closes >= 1 /\ ~Open(v)

\* The operation on upstream u has returned or raised.
Ended(u) == clients[u].outcome \notin {"-", "auth"}

\* C16: when fetchToolsFromMcpServer or callToolOnMcpServer has returned or
\* raised, close was attempted on its client and the session is not Connecting
\* or Ready, whether the transport, the connect, the request or nothing failed;
\* the indexer's listToolsFromServer never ends with a session Connecting or Ready.
C16_CloseBeforeEnd ==
    \A u \in DiscNames :
        Ended(u) =>
            /\ ~Open(u)
            /\ pass.path \in {"load", "call"} => clients[u].closes >= 1

\* A pass of loadToolsFromMcpServers is over in which one upstream failed to
\* connect, one failed the listing and one answered, each client closed.
C16_Witness ==
    /\ pass.path = "load" /\ pass.pc = "done"
    /\ \E u, v, w \in DiscNames :
        /\ clients[u].request = "connect" /\ clients[u].closes = 1
        /\ clients[v].request = "list" /\ clients[v].closes = 1
        /\ clients[w].request = "ok" /\ clients[w].outcome = "ok"
        /\ clients[w].closes = 1 /\ clients[w].session = "Closed"

\* C17 as stated: the outcome of a transport operation is that of its
\* request: the result when the request succeeded, the request's error when it
\* failed, whatever close did.
C17_AsStated ==
    \A u \in DiscNames : Ended(u) => clients[u].outcome = clients[u].request

\* C18 as stated: no operation is still waiting for the connect or the
\* request to complete after the configured timeout has elapsed.
C18_AsStated ==
    pass.pc \in {"connecting", "requesting"} => elapsed <= TimeoutTicks

\* The index file read by the last call is absent, is no JSON document, or
\* has a major version other than the current one.
Unloadable(f) ==
    \/ f.kind \in {"missing", "text"}
    \/ f.kind = "json" /\ f.hasVersion /\ f.version # <<>>
                       /\ f.version[1] # StorageVersion[1]

\* The file differs from the current version in minor or patch only.
MinorOrPatchOnly(f) ==
    /\ f.kind = "json" /\ f.hasVersion /\ Len(f.version) = 3
    /\ f.version[1] = StorageVersion[1]
    /\ f.version # StorageVersion

\* C19: exists(path) returns true exactly when load(path) succeeds on the same
\* file: both fail for a missing file, an unparseable file and a file of
\* another major version, and both succeed for a file that differs from the
\* current version in minor or patch only.
C19_ExistsIffLoads ==
    storeResult.called =>
        /\ storeResult.op = "exists" => (storeResult.value <=> load(storeResult.read).ok)
        /\ storeResult.op = "load" => (storeResult.ok <=> exists(storeResult.read))
        /\ Unloadable(storeResult.read) => ~storeResult.ok /\ ~storeResult.value
        /\ MinorOrPatchOnly(storeResult.read) =>
              /\ storeResult.op = "exists" => storeResult.value
              /\ storeResult.op = "load" => storeResult.ok /\ storeResult.data = storeResult.read

\* exists has answered true for an index file of a later minor version.
C19_Witness ==
    /\ storeResult.called /\ storeResult.op = "exists"
    /\ storeResult.read.version = <<"1", "2", "0">>
    /\ storeResult.value

\* C20 as stated: a load that overlaps a save over a complete previous
\* document returns the previous document or the new one.
C20_AsStated ==
    (/\ storeResult.called /\ storeResult.op = "load"
     /\ storeResult.during # "idle"
     /\ load(storeResult.previous).ok)
        => /\ storeResult.ok
           /\ storeResult.data \in {storeResult.previous, storeResult.next}

\* C21 as stated: every index read and every gateway request that starts
\* after a save has completed is answered with the content saved at its path.
C21_AsStated ==
    (readResult.called /\ ~readResult.threw) =>
        readResult.answer = savedIndex[readResult.path]

\* What the comparison of a stored with a current fingerprint has to report.
Transition(stored, current) ==
    IF stored <= 0 /\ current > 0 THEN "added"
    ELSE IF stored > 0 /\ current <= 0 THEN "removed"
    ELSE IF stored > 0 /\ current > 0 /\ stored # current THEN "content changed"
    ELSE "none"

ConfigReasonsFor(reasons, s) ==
    SelectSeq(reasons, LAMBDA r : r.kind = "config" /\ r.scope = s)

\* The fingerprints the detector compares the stored ones with.
CurrentFingerprints(scopeOpt) ==
    [s \in ScopeSet |->
        IF scopeOpt = "user" /\ s # "user" THEN FpMissing ELSE cfgFiles[s]]

\* C22: whenever the detector runs on an index with build metadata, each of
\* the three scopes contributes exactly one reason, naming it, when its
\* fingerprint was added, removed or changed in content, and none when it is
\* absent on both sides or present on both sides with equal hashes.
C22_OneReasonPerTransition ==
    [][(regenResult' # regenResult /\ indexFiles[regenScope].kind = "valid") =>
          \A s \in ScopeSet :
            LET t == Transition(indexFiles[regenScope].meta.fps[s],
                                CurrentFingerprints(regenResult'.scopeOpt)[s])
                rs == ConfigReasonsFor(regenResult'.reasons, s)
            IN  IF t = "none" THEN rs = <<>>
                ELSE Len(rs) = 1 /\ rs[1].what = t]_vars

\* The detector has run on an index whose stored fingerprint of one scope is
\* present with another hash than the file has now, and has reported
\* "content changed" for that scope and no config reason for the other two.
C22_Witness ==
    /\ regenResult.called /\ indexFiles[regenScope].kind = "valid"
    /\ \E s \in ScopeSet :
        /\ indexFiles[regenScope].meta.fps[s] > 0 /\ cfgFiles[s] > 0
        /\ indexFiles[regenScope].meta.fps[s] # cfgFiles[s]
        /\ ConfigReasonsFor(regenResult.reasons, s) = <<Reason("config", s, "content changed")>>
        /\ \A o \in ScopeSet \ {s} : ConfigReasonsFor(regenResult.reasons, o) = <<>>

\* The token file of the url of the last query.
QueriedFile == tokenFiles[getTokenPath(queryResult.url)]

\* C23: needsRefresh(url) is false at every time for a stored session that
\* has no expiry field.
C23_NoExpiryNoRefresh ==
    (/\ queryResult.called /\ queryResult.op = "needsRefresh"
     /\ QueriedFile.kind = "session" /\ QueriedFile.expiresAt = NoExpiry)
        => ~queryResult.value

\* needsRefresh has answered false at the last point in time for a stored
\* session without expiry.
C23_Witness ==
    /\ queryResult.called /\ queryResult.op = "needsRefresh"
    /\ QueriedFile.kind = "session" /\ QueriedFile.expiresAt = NoExpiry
    /\ now = MaxTime
    /\ ~queryResult.value

\* A stored session that holds neither an access token nor a refresh token.
Tokenless(f) == f.kind = "session" /\ f.access_token = 0 /\ f.refresh_token = 0

\* C24 as stated: for a stored session with neither an access token nor a
\* refresh token, loadSession yields no session with or without
\* includeExpired, and hasValidSession and hasSession return false.
C24_AsStated ==
    /\ (loadResult.called /\ Tokenless(tokenFiles[getTokenPath(loadResult.url)]))
            => ~loadResult.found
    /\ (queryResult.called /\ queryResult.op \in {"hasValidSession", "hasSession"}
            /\ Tokenless(QueriedFile))
            => ~queryResult.value

\* C29 as stated: updateTokens(url, t) on a saved session that has a refresh
\* token and whose expiry has passed succeeds, and loadSession(url) then
\* returns a session with the tokens t and the expiry recomputed from t.
C29_AsStated ==
    (/\ queryResult.called /\ queryResult.op = "updateTokens"
     /\ queryResult.before.kind = "session" /\ queryResult.before.refresh_token # 0
     /\ queryResult.before.expiresAt # NoExpiry /\ queryResult.at >= queryResult.before.expiresAt)
        => /\ ~queryResult.threw
           /\ loadSession(queryResult.url, TRUE) =
                Found([access_token |-> queryResult.tokens.access_token,
                       refresh_token |-> queryResult.tokens.refresh_token,
                       expiresAt |-> IF queryResult.tokens.expires_in # 0
                                     THEN queryResult.at + queryResult.tokens.expires_in
                                     ELSE NoExpiry])

\* The call verb has run to its exit.
CallVerbEnded == lastExec.via \in {"cli", "cli:args"}

\* C25: the call verb exits with code 0 exactly when the executor returned
\* success and the upstream result does not report isError, and with code 1 in
\* every other case: arguments that do not parse, a typed failure, a raised
\* error, an upstream result with isError.
C25_ExitCode ==
    CallVerbEnded =>
        /\ lastExec.exit \in {0, 1}
        /\ lastExec.exit = 0 <=>
              (lastExec.via = "cli" /\ lastExec.code = "SUCCESS" /\ ~lastExec.isError)

\* The call verb has exited with code 1 on a successful execution whose
\* upstream result reports isError.
C25_Witness ==
    /\ lastExec.via = "cli" /\ lastExec.code = "SUCCESS"
    /\ lastExec.isError /\ lastExec.exit = 1

\* C27 as stated: ToolExecutor.execute never raises; every failure comes back
\* as a typed failure result.
C27_AsStated ==
    lastExec.via = "cli" => lastExec.code # "RAISED"

\* C28 as stated: the arguments sent in the upstream callTool request are the
\* arguments given to ToolExecutor.execute.
C28_AsStated ==
    (lastExec.via = "cli" /\ ReachedUpstream) => lastExec.sent.arguments = lastExec.args

\* The tools of an index, none for a missing one.
ToolsIn(index) == IF index.present THEN index.tools ELSE <<>>

\* A tool name occurs twice among the tools of both indexes.
NameTwice ==
    LET all == ToolsIn(userIndex) \o ToolsIn(projectIndex)
    IN  \E i, j \in 1..Len(all) : i # j /\ all[i].name = all[j].name

\* C26, amended: the merged BM25 statistics are those of both tool lists put
\* together without deduplication: totalDocuments is the sum of both tool
\* counts and a term's document frequency the sum of both frequencies. They
\* equal the statistics recomputed from the merged, deduplicated tool list
\* exactly when no tool name occurs twice among the tools of P and U.
C26_StatsOfBothLists ==
    mergeResult.called =>
        /\ mergeResult.bm25Stats =
              computeBM25Stats(ToolsIn(userIndex) \o ToolsIn(projectIndex))
        /\ mergeResult.bm25Stats.totalDocuments =
              Len(ToolsIn(projectIndex)) + Len(ToolsIn(userIndex))
        /\ (mergeResult.bm25Stats = computeBM25Stats(mergeResult.tools)) <=> ~NameTwice

\* Two indexes that share a tool name have been merged: the merged statistics
\* count more documents than the merged list holds.
C26_Witness ==
    /\ mergeResult.called
    /\ projectIndex.present /\ userIndex.present
    /\ \E i \in 1..Len(projectIndex.tools), j \in 1..Len(userIndex.tools) :
          projectIndex.tools[i].name = userIndex.tools[j].name
    /\ mergeResult.bm25Stats.totalDocuments > Len(mergeResult.tools)

\* C26 as stated: the merged BM25 statistics equal the statistics recomputed
\* from the merged, deduplicated tool list.
C26_AsStated ==
    mergeResult.called =>
        /\ mergeResult.bm25Stats = computeBM25Stats(mergeResult.tools)
        /\ mergeResult.bm25Stats.totalDocuments = Len(mergeResult.tools)

\* C30 as stated: when a start of serve is followed by a second start with the
\* same flags, the CLI version and the config files unchanged, the second
\* start asks for no rebuild of the scope it checks, whatever index the first
\* start found.
C30_AsStated ==
    [][\A flags \in FlagSets :
          ServeScopeIteration(flags, TRUE) =>
              ~checkIndexRegeneration(indexFiles'[regenScope], Args(flags, <<>>),
                                      regenScope).needsRebuild]_vars

=============================================================================
